---- MODULE Spec2Model ----
(***************************************************************************)
(* Verification model of the keystone-cli workflow engine core:            *)
(*   - WorkflowScheduler   (src/runner/workflow-scheduler.ts)              *)
(*   - WorkflowState       (src/runner/workflow-state.ts)                  *)
(*   - ResourcePoolManager (src/runner/resource-pool.ts)                   *)
(*   - recovery wrappers   (reflexion / auto_heal)                         *)
(*   - Redactor / RedactionBuffer (src/utils/redactor.ts)                  *)
(*   - CircuitBreaker      (src/utils/circuit-breaker.ts)                  *)
(*   - RateLimiter and the step timeout wrapper                            *)
(*   - MCPClient           (src/runner/mcp-client.ts)                      *)
(*   - executeLlmStep      (src/runner/executors/llm-executor.ts)          *)
(*   - the foreach fan-out                                                 *)
(*   - createOutputLimiter (src/utils/stream-utils.ts)                     *)
(*   - MCPManager          (src/runner/mcp-manager.ts)                     *)
(* Each component has its own specification over the shared variables; a  *)
(* component that a specification does not drive stays in its idle state.  *)
(***************************************************************************)
EXTENDS Integers, Sequences, FiniteSets, TLC

VARIABLES
  \* ---- WorkflowState / store
  pc,               \* phase of the run: "store", "hydrated", "scheduling", or "idle"
  workflow,         \* Workflow.steps: sequence of [id, type, needs, foreach]
  db,               \* step_executions rows, in insertion order
  clock,            \* the store's time source for started_at
  foreachLen,       \* length of the evaluated foreach expression (-1: evaluation throws)
  stepContexts,     \* WorkflowState.stepContexts: step id -> context
  \* ---- WorkflowScheduler
  executionOrder,   \* WorkflowScheduler.executionOrder
  pendingSteps,     \* WorkflowScheduler.pendingSteps (a JS Set: insertion ordered)
  runningSteps,     \* WorkflowScheduler.runningSteps
  completedSteps,   \* WorkflowScheduler.completedSteps
  alreadyCompleted, \* the constructor's seed
  globalCap,        \* the runner's globalConcurrencyLimit
  runnable,         \* result of the last getRunnableSteps call
  runningCount,     \* first argument of the last getRunnableSteps call
  completeEvents,   \* ids for which markStepComplete has been called
  startEvents,      \* ids for which startStep has been called
  failedEvents      \* ids for which markStepFailed has been called

VARIABLES
  \* ---- ResourcePoolManager
  poolOptions,      \* constructor options: [pools, defaultLimit]
  pools,            \* pool name -> [limit, active, queue, totalAcquired]
  callers,          \* caller -> [state, pool, priority, seq] (the acquire() promises)
  nextSeq,          \* arrival counter of queued acquisitions
  \* ---- recovery wrappers (reflexion / auto_heal)
  recStep,          \* the step definition the workflow declares
  recCurrent,       \* the step definition the next executor call receives
  recPhase,         \* "run", "failed", "healing", "done"
  recCalls,         \* the step definitions handed to the executor, in call order
  recAttempts,      \* recovery attempts made so far
  \* ---- Redactor / RedactionBuffer
  secrets,          \* the secrets map given to the Redactor: sequence of [key, value]
  rbBuffer,         \* RedactionBuffer.buffer
  rbInput,          \* concatenation of the chunks passed to process()
  rbOutput,         \* concatenation of the chunks emitted by process() and flush()
  rbCalls,          \* number of process() calls so far
  rbFlushed,        \* flush() has been called
  \* ---- CircuitBreaker
  cbOptions,        \* [failureThreshold, resetTimeout, successThreshold]
  cbState,          \* CircuitBreaker.state
  failureCount,     \* CircuitBreaker.failureCount
  successCount,     \* CircuitBreaker.successCount
  lastFailureTime,  \* CircuitBreaker.lastFailureTime
  now,              \* Date.now()
  consecutiveFailures, \* failures recorded since the last success or closing
  failuresSinceReset,  \* the same count, also restarted by every reset()
  cbAllowed,        \* the value returned by the last read of isAllowed
  cbCalls,          \* the execute(fn) calls: position, fn invocations, outcomes recorded
  halfOpenSuccesses,   \* successes recorded since HALF_OPEN was entered, no failure between
  lastFailureOrTrip,   \* time of the last onFailure() or trip()
  lastOp,           \* the operation performed by the last step
  \* ---- RateLimiter
  rlOptions,        \* [maxTokens, refillRate]
  rlTokens,         \* tokens in the bucket
  rlQueue,          \* the waiters, oldest first
  rlWaiters,        \* each acquire() call: its state and how often it was settled
  rlLastOp,         \* the operation performed by the last step
  \* ---- withTimeout
  toCalls,          \* each withTimeout call: promise, timer, result, abort() calls
  toAborted         \* abortController.signal.aborted

VARIABLES
  \* ---- MCPClient
  mcpPhase,         \* "new" before createLocal, "ready" after it
  mcpParentEnv,     \* process.env of the parent: name -> value
  mcpCallerEnv,     \* the env argument of createLocal
  mcpChildEnv,      \* the env option handed to spawn
  messageId,        \* MCPClient.messageId
  pendingRequests,  \* keys of MCPClient.pendingRequests
  mcpRequests,      \* each request() call, by id + 1: promise, send, timer
  mcpSent           \* ids of the messages handed to the transport, in order

VARIABLES
  \* ---- executeLlmStep
  llmStep,          \* the LlmStep: maxIterations, allowClarification, maxMessageHistory
  llmTTY,           \* process.stdin.isTTY
  llmScript,        \* the turns the language model answers with, cyclically
  llmPc,            \* "running" inside executeLlmStep, "returned" after it
  currentMessages,  \* the message list of the conversation
  iterations,       \* turns of the active agent so far
  handoffCount,     \* handoffs counted so far
  llmActivations,   \* agent activations since executeLlmStep was entered
  activeAgent,      \* the name of the agent whose turn it is
  llmModelCalls,    \* streamText calls of the run
  llmEntryCalls,    \* streamText calls since executeLlmStep was entered
  llmSent,          \* the messages argument of the last streamText call
  llmResult,        \* the StepResult returned
  llmStored,        \* the output stored for the step when it was suspended
  llmAnswer,        \* the user's answer, inputs[step.id].__answer
  llmResumes        \* times executeLlmStep was re-entered

VARIABLES
  \* ---- foreach fan-out
  feConcurrency,    \* the step's concurrency
  feIterations,     \* status of each iteration, by iteration_index + 1
  feNextIndex,      \* the next iteration_index to dispatch
  feMaxRunning      \* the largest number of iterations ever executing at once

VARIABLES
  \* ---- store rows that are not enumerated
  moreRows          \* iteration rows of the foreach step beyond those in db

VARIABLES
  \* ---- Redactor.redact applied to its own result
  rdSecrets,        \* the secrets map the Redactor was built from
  rdText,           \* the text x
  rdOnce,           \* redact(x)
  rdTwice,          \* redact(redact(x))
  rdCalls           \* calls of redact so far

VARIABLES
  \* ---- createOutputLimiter
  olMaxBytes,       \* the maxBytes argument
  olBytes,          \* bytes
  olText,           \* text: the characters decoded so far
  olTruncated,      \* truncated
  olPending,        \* the bytes the StringDecoder holds back
  olWritten,        \* the concatenation of the buffers given to decoder.write
  olInput,          \* the concatenation of all appended chunks
  olFinal           \* the result of finalize() (<<>> before it is called)

VARIABLES
  \* ---- MCPManager
  mgrClients,       \* clients: server key -> client
  mgrPromises,      \* connectionPromises: server key -> connection attempt
  mgrAttempts,      \* the connection attempts: [key, config, phase, client]
  mgrCalls,         \* caller -> [state, config, key, attempt, result]
  mgrCreated,       \* MCPClient instances created
  mgrStops          \* calls of stopAll

schedVars == <<executionOrder, pendingSteps, runningSteps, completedSteps,
               alreadyCompleted, globalCap, runnable, runningCount,
               completeEvents, startEvents, failedEvents>>
stateVars == <<pc, workflow, db, clock, foreachLen, stepContexts>>
runVars == <<stateVars, schedVars>>
poolVars == <<poolOptions, pools, callers, nextSeq>>
recoveryVars == <<recStep, recCurrent, recPhase, recCalls, recAttempts>>
redactionVars == <<secrets, rbBuffer, rbInput, rbOutput, rbCalls, rbFlushed>>
breakerVars == <<cbOptions, cbState, failureCount, successCount, lastFailureTime,
                 now, consecutiveFailures, failuresSinceReset, lastOp>>

breakerCallVars == <<cbAllowed, cbCalls, halfOpenSuccesses, lastFailureOrTrip>>

limiterVars == <<rlOptions, rlTokens, rlQueue, rlWaiters, rlLastOp>>
timeoutVars == <<toCalls, toAborted>>

mcpVars == <<mcpPhase, mcpParentEnv, mcpCallerEnv, mcpChildEnv, messageId,
             pendingRequests, mcpRequests, mcpSent>>

llmVars == <<llmStep, llmTTY, llmScript, llmPc, currentMessages, iterations,
             handoffCount, llmActivations, llmModelCalls, llmEntryCalls, llmSent,
             llmResult, llmStored, llmAnswer, llmResumes, activeAgent>>

foreachVars == <<feConcurrency, feIterations, feNextIndex, feMaxRunning>>

storeVars == <<moreRows>>

redactVars == <<rdSecrets, rdText, rdOnce, rdTwice, rdCalls>>

olVars == <<olMaxBytes, olBytes, olText, olTruncated, olPending, olWritten,
            olInput, olFinal>>

mgrVars == <<mgrClients, mgrPromises, mgrAttempts, mgrCalls, mgrCreated,
             mgrStops>>

coreVars == <<runVars, poolVars, recoveryVars, redactionVars, breakerVars,
              breakerCallVars, limiterVars, timeoutVars>>
auxVars == <<mcpVars, llmVars, foreachVars, storeVars, redactVars, olVars,
            mgrVars>>

vars == <<coreVars, auxVars>>

\* the components an action of one component leaves alone
exceptRun == <<auxVars, poolVars, recoveryVars, redactionVars, breakerVars,
               breakerCallVars, limiterVars, timeoutVars>>
exceptPool == <<auxVars, runVars, recoveryVars, redactionVars, breakerVars,
                breakerCallVars, limiterVars, timeoutVars>>
exceptRecovery == <<auxVars, runVars, poolVars, redactionVars, breakerVars,
                    breakerCallVars, limiterVars, timeoutVars>>
exceptRedaction == <<auxVars, runVars, poolVars, recoveryVars, breakerVars,
                     breakerCallVars, limiterVars, timeoutVars>>
exceptBreaker == <<auxVars, runVars, poolVars, recoveryVars, redactionVars, limiterVars,
                   timeoutVars>>
exceptLimiter == <<auxVars, runVars, poolVars, recoveryVars, redactionVars, breakerVars,
                   breakerCallVars, timeoutVars>>
exceptTimeout == <<auxVars, runVars, poolVars, recoveryVars, redactionVars, breakerVars,
                   breakerCallVars, limiterVars>>
exceptMcp == <<coreVars, llmVars, foreachVars, storeVars, redactVars,
  olVars, mgrVars>>
exceptLlm == <<coreVars, mcpVars, foreachVars, storeVars, redactVars,
  olVars, mgrVars>>
exceptForeach == <<coreVars, mcpVars, llmVars, storeVars, redactVars,
  olVars, mgrVars>>
exceptStore == <<coreVars, mcpVars, llmVars, foreachVars, redactVars,
  olVars, mgrVars>>
exceptOl == <<coreVars, mcpVars, llmVars, foreachVars, storeVars, redactVars,
  mgrVars>>
exceptMgr == <<coreVars, mcpVars, llmVars, foreachVars, storeVars, redactVars,
  olVars>>
exceptRedact == <<coreVars, mcpVars, llmVars, foreachVars, storeVars,
  olVars, mgrVars>>

\* idle state of each component
RunIdle ==
  /\ pc = "idle"
  /\ workflow = <<>>
  /\ db = <<>>
  /\ clock = 0
  /\ foreachLen = 0
  /\ stepContexts = <<>>
  /\ executionOrder = <<>>
  /\ pendingSteps = <<>>
  /\ runningSteps = {}
  /\ completedSteps = {}
  /\ alreadyCompleted = {}
  /\ globalCap = 1
  /\ runnable = <<>>
  /\ runningCount = 0
  /\ completeEvents = {}
  /\ startEvents = {}
  /\ failedEvents = {}

PoolIdle ==
  /\ poolOptions = [pools |-> <<>>, defaultLimit |-> 1]
  /\ pools = <<>>
  /\ callers = <<>>
  /\ nextSeq = 0

RecoveryIdle ==
  /\ recStep = <<>>
  /\ recCurrent = <<>>
  /\ recPhase = "idle"
  /\ recCalls = <<>>
  /\ recAttempts = 0

RedactionIdle ==
  /\ secrets = <<>>
  /\ rbBuffer = <<>>
  /\ rbInput = <<>>
  /\ rbOutput = <<>>
  /\ rbCalls = 0
  /\ rbFlushed = FALSE

LimiterIdle ==
  /\ rlOptions = <<>>
  /\ rlTokens = 0
  /\ rlQueue = <<>>
  /\ rlWaiters = <<>>
  /\ rlLastOp = "none"

TimeoutIdle ==
  /\ toCalls = <<>>
  /\ toAborted = FALSE

BreakerIdle ==
  /\ cbOptions = <<>>
  /\ cbState = "CLOSED"
  /\ failureCount = 0
  /\ successCount = 0
  /\ lastFailureTime = 0
  /\ now = 0
  /\ consecutiveFailures = 0
  /\ failuresSinceReset = 0
  /\ cbAllowed = TRUE
  /\ cbCalls = <<>>
  /\ halfOpenSuccesses = 0
  /\ lastFailureOrTrip = 0
  /\ lastOp = "none"

McpIdle ==
  /\ mcpPhase = "idle"
  /\ mcpParentEnv = <<>>
  /\ mcpCallerEnv = <<>>
  /\ mcpChildEnv = <<>>
  /\ messageId = 0
  /\ pendingRequests = {}
  /\ mcpRequests = <<>>
  /\ mcpSent = <<>>

LlmIdle ==
  /\ llmStep = <<>>
  /\ llmTTY = FALSE
  /\ llmScript = <<>>
  /\ llmPc = "idle"
  /\ currentMessages = <<>>
  /\ iterations = 0
  /\ handoffCount = 0
  /\ llmActivations = 0
  /\ activeAgent = ""
  /\ llmModelCalls = 0
  /\ llmEntryCalls = 0
  /\ llmSent = <<>>
  /\ llmResult = <<>>
  /\ llmStored = <<>>
  /\ llmAnswer = ""
  /\ llmResumes = 0

ForeachIdle ==
  /\ feConcurrency = 1
  /\ feIterations = <<>>
  /\ feNextIndex = 0
  /\ feMaxRunning = 0

StoreIdle == moreRows = 0

RedactIdle ==
  /\ rdSecrets = <<>>
  /\ rdText = <<>>
  /\ rdOnce = <<>>
  /\ rdTwice = <<>>
  /\ rdCalls = 0

CoreIdle ==
  /\ RunIdle /\ PoolIdle /\ RecoveryIdle /\ RedactionIdle /\ BreakerIdle
  /\ LimiterIdle /\ TimeoutIdle

OlIdle ==
  /\ olMaxBytes = 0
  /\ olBytes = 0
  /\ olText = <<>>
  /\ olTruncated = FALSE
  /\ olPending = <<>>
  /\ olWritten = <<>>
  /\ olInput = <<>>
  /\ olFinal = <<>>

MgrIdle ==
  /\ mgrClients = <<>>
  /\ mgrPromises = <<>>
  /\ mgrAttempts = <<>>
  /\ mgrCalls = <<>>
  /\ mgrCreated = 0
  /\ mgrStops = 0

AuxIdle ==
  /\ McpIdle /\ LlmIdle /\ ForeachIdle /\ StoreIdle /\ RedactIdle
  /\ OlIdle /\ MgrIdle

----------------------------------------------------------------------------
(* Generic helpers *)

Range(s) == {s[i] : i \in DOMAIN s}

Max(a, b) == IF a >= b THEN a ELSE b

Min(a, b) == IF a <= b THEN a ELSE b

RECURSIVE SeqFilterOut(_, _)
SeqFilterOut(s, x) ==
  IF s = <<>> THEN <<>>
  ELSE IF Head(s) = x THEN SeqFilterOut(Tail(s), x)
       ELSE <<Head(s)>> \o SeqFilterOut(Tail(s), x)

----------------------------------------------------------------------------
(* Status vocabulary (types/status.ts) *)

StepStatus == {"pending", "running", "success", "failed", "skipped", "suspended"}

----------------------------------------------------------------------------
(* Workflows *)

StepIds == <<"s1", "s2", "s3">>

MaxCap == 2

StepIdSet == Range(StepIds)

\* step definition of id in a workflow
stepMap(wf, id) == wf[CHOOSE i \in DOMAIN wf : wf[i].id = id]

wfIds(wf) == [i \in DOMAIN wf |-> wf[i].id]

\* WorkflowParser.topologicalSort: Kahn's algorithm with a FIFO queue seeded in
\* declaration order; a dependent is queued when its last need is emitted.
RECURSIVE KahnLoop(_, _, _, _)
KahnLoop(wf, queue, i, indeg) ==
  IF i > Len(queue) THEN queue
  ELSE LET id     == queue[i]
           indeg2 == [d \in DOMAIN indeg |->
                        IF id \in stepMap(wf, d).needs THEN indeg[d] - 1 ELSE indeg[d]]
           freed  == SelectSeq(wfIds(wf),
                        LAMBDA d : id \in stepMap(wf, d).needs /\ indeg2[d] = 0)
       IN KahnLoop(wf, queue \o freed, i + 1, indeg2)

topologicalSort(wf) ==
  LET ids   == wfIds(wf)
      indeg == [d \in Range(ids) |-> Cardinality(stepMap(wf, d).needs)]
  IN KahnLoop(wf, SelectSeq(ids, LAMBDA d : indeg[d] = 0), 1, indeg)

\* topologicalSort throws on a circular dependency
IsAcyclic(wf) == Len(topologicalSort(wf)) = Len(wf)

\* every workflow over StepIds: arbitrary needs among the declared ids,
\* the last declared step may be a join
Workflows ==
  {wf \in [DOMAIN StepIds -> [id : StepIdSet, type : {"shell", "join"},
                               needs : SUBSET StepIdSet, foreach : {FALSE}]] :
     /\ \A i \in DOMAIN wf : wf[i].id = StepIds[i] /\ wf[i].id \notin wf[i].needs
     /\ \A i \in DOMAIN wf : wf[i].type = "join" => i = Len(StepIds)
     /\ IsAcyclic(wf)}

----------------------------------------------------------------------------
(* WorkflowState.getCompletedStepIds *)

getCompletedStepIds(ctxs) ==
  {s \in DOMAIN ctxs : ctxs[s].status = "success" \/ ctxs[s].status = "skipped"}

----------------------------------------------------------------------------
(* WorkflowScheduler *)

\* constructor: the steps of executionOrder that are not in the seed
remainingKeepAll(order, completed) == order

remaining(order, completed) == SelectSeq(order, LAMBDA id : id \notin completed)

isStepReadyAny(wf, completed, id) ==
  LET step == stepMap(wf, id)
  IN step.needs = {} \/ \E dep \in step.needs : dep \in completed

isStepReady(wf, completed, id) ==
  LET step == stepMap(wf, id)
  IN IF step.type = "join"
     THEN IF Cardinality(step.needs) = 0 THEN TRUE
          ELSE \A dep \in step.needs : dep \in completed
     ELSE \A dep \in step.needs : dep \in completed

\* the loop of getRunnableSteps over pendingSteps[i..], runnable collected so far
RECURSIVE runnableLoopOffByOne(_, _, _, _, _, _)
runnableLoopOffByOne(wf, pending, completed, i, acc, args) ==
  IF i > Len(pending) THEN acc
  ELSE IF args.runningCount + Len(acc) > args.globalConcurrencyLimit THEN acc
  ELSE IF isStepReady(wf, completed, pending[i])
       THEN runnableLoopOffByOne(wf, pending, completed, i + 1, Append(acc, pending[i]), args)
       ELSE runnableLoopOffByOne(wf, pending, completed, i + 1, acc, args)

\* a loop that stops at the first pending step that is not ready
RECURSIVE runnableLoopStopAtBlocked(_, _, _, _, _, _)
runnableLoopStopAtBlocked(wf, pending, completed, i, acc, args) ==
  IF i > Len(pending) THEN acc
  ELSE IF args.runningCount + Len(acc) >= args.globalConcurrencyLimit THEN acc
  ELSE IF isStepReady(wf, completed, pending[i])
       THEN runnableLoopStopAtBlocked(wf, pending, completed, i + 1,
                                      Append(acc, pending[i]), args)
       ELSE acc

RECURSIVE runnableLoop(_, _, _, _, _, _)
runnableLoop(wf, pending, completed, i, acc, args) ==
  IF i > Len(pending) THEN acc
  ELSE IF args.runningCount + Len(acc) >= args.globalConcurrencyLimit THEN acc
  ELSE IF isStepReady(wf, completed, pending[i])
       THEN runnableLoop(wf, pending, completed, i + 1, Append(acc, pending[i]), args)
       ELSE runnableLoop(wf, pending, completed, i + 1, acc, args)

getRunnableSteps(wf, pending, completed, rc, cap) ==
  runnableLoop(wf, pending, completed, 1, <<>>,
               [runningCount |-> rc, globalConcurrencyLimit |-> cap])

\* new WorkflowScheduler(workflow, state.getCompletedStepIds())
NewScheduler ==
  /\ pc = "hydrated"
  /\ pc' = "scheduling"
  /\ executionOrder' = topologicalSort(workflow)
  /\ alreadyCompleted' = getCompletedStepIds(stepContexts)
  /\ completedSteps' = alreadyCompleted'
  /\ pendingSteps' = remaining(executionOrder', completedSteps')
  /\ runningSteps' = {}
  /\ UNCHANGED <<workflow, db, clock, foreachLen, stepContexts, globalCap,
                 runnable, runningCount, completeEvents, startEvents, failedEvents>>
  /\ UNCHANGED exceptRun

\* the runner asks for work once it has started everything it was given
GetRunnableSteps ==
  /\ pc = "scheduling"
  /\ \A i \in DOMAIN runnable : runnable[i] \notin Range(pendingSteps)
  /\ runningCount' = Cardinality(runningSteps)
  /\ runnable' = getRunnableSteps(workflow, pendingSteps, completedSteps,
                                  runningCount', globalCap)
  /\ UNCHANGED <<stateVars, executionOrder, pendingSteps, runningSteps,
                 completedSteps, alreadyCompleted, globalCap, completeEvents,
                 startEvents, failedEvents>>
  /\ UNCHANGED exceptRun

\* a startStep that leaves the step in the pending set
startStepKeepPending(stepId) ==
  /\ pc = "scheduling"
  /\ stepId \in Range(runnable)
  /\ stepId \in Range(pendingSteps)
  /\ stepId \notin runningSteps
  /\ runningSteps' = runningSteps \cup {stepId}
  /\ startEvents' = startEvents \cup {stepId}
  /\ UNCHANGED <<stateVars, executionOrder, pendingSteps, completedSteps,
                 alreadyCompleted, globalCap, runnable, runningCount,
                 completeEvents, failedEvents>>
  /\ UNCHANGED exceptRun

startStep(stepId) ==
  /\ pc = "scheduling"
  /\ stepId \in Range(runnable)
  /\ stepId \in Range(pendingSteps)
  /\ pendingSteps' = SeqFilterOut(pendingSteps, stepId)
  /\ runningSteps' = runningSteps \cup {stepId}
  /\ startEvents' = startEvents \cup {stepId}
  /\ UNCHANGED <<stateVars, executionOrder, completedSteps, alreadyCompleted,
                 globalCap, runnable, runningCount, completeEvents, failedEvents>>
  /\ UNCHANGED exceptRun

\* a markStepComplete that does not record the step as completed
markStepCompleteNoRecord(stepId) ==
  /\ pc = "scheduling"
  /\ stepId \in runningSteps
  /\ pendingSteps' = SeqFilterOut(pendingSteps, stepId)
  /\ runningSteps' = runningSteps \ {stepId}
  /\ completeEvents' = completeEvents \cup {stepId}
  /\ UNCHANGED <<stateVars, executionOrder, completedSteps, alreadyCompleted,
                 globalCap, runnable, runningCount, startEvents, failedEvents>>
  /\ UNCHANGED exceptRun

markStepComplete(stepId) ==
  /\ pc = "scheduling"
  /\ stepId \in runningSteps
  /\ completedSteps' = completedSteps \cup {stepId}
  /\ pendingSteps' = SeqFilterOut(pendingSteps, stepId)
  /\ runningSteps' = runningSteps \ {stepId}
  /\ completeEvents' = completeEvents \cup {stepId}
  /\ UNCHANGED <<stateVars, executionOrder, alreadyCompleted, globalCap,
                 runnable, runningCount, startEvents, failedEvents>>
  /\ UNCHANGED exceptRun

\* a markStepFailed that puts the step back in the pending set
markStepFailedRequeue(stepId) ==
  /\ pc = "scheduling"
  /\ stepId \in runningSteps
  /\ runningSteps' = runningSteps \ {stepId}
  /\ pendingSteps' = Append(pendingSteps, stepId)
  /\ failedEvents' = failedEvents \cup {stepId}
  /\ UNCHANGED <<stateVars, executionOrder, completedSteps, alreadyCompleted,
                 globalCap, runnable, runningCount, completeEvents, startEvents>>
  /\ UNCHANGED exceptRun

markStepFailed(stepId) ==
  /\ pc = "scheduling"
  /\ stepId \in runningSteps
  /\ runningSteps' = runningSteps \ {stepId}
  /\ UNCHANGED <<stateVars, executionOrder, pendingSteps, completedSteps,
                 alreadyCompleted, globalCap, runnable, runningCount,
                 completeEvents, startEvents>>
  /\ failedEvents' = failedEvents \cup {stepId}
  /\ UNCHANGED exceptRun

isComplete == Len(pendingSteps) = 0 /\ runningSteps = {}

----------------------------------------------------------------------------
(* The store: step_executions rows (db/workflow-db.ts)                      *)
(* A row is [step_id, iteration_index, status, started_at, output, error];  *)
(* iteration_index is -1 for NULL (the parent / main record), started_at is *)
(* 0 for NULL. The execId of a row is its position in db. The error of a    *)
(* failed row is the message of that attempt, written as its execId; it is  *)
(* 0 for NULL.                                                              *)

MaxRows == 3

MaxItems == 2

NoOutput == [kind |-> "none"]

\* the parent output { __foreachItems: [...] } with n items
ForeachItemsOutput(n) == [kind |-> "foreachItems", n |-> n]

\* the output { result: v } of an iteration
ValueOutput(v) == [kind |-> "value", v |-> v]

\* the parent output of a completed foreach: the array of n iteration outputs
ArrayOutput(n) == [kind |-> "array", n |-> n]

\* an index of the outputs array that was never assigned
Hole == [kind |-> "hole"]

isParentRow(row) == row.iteration_index < 0

\* getMainStep(runId, stepId): the parent record (iteration_index IS NULL)
mainRows(rows, stepId) ==
  SelectSeq(rows, LAMBDA r : r.step_id = stepId /\ isParentRow(r))

hasMainStep(rows, stepId) == Len(mainRows(rows, stepId)) > 0

getMainStep(rows, stepId) == mainRows(rows, stepId)[1]

\* getStepIterations(runId, stepId): all iteration children
getStepIterations(rows, stepId) ==
  SelectSeq(rows, LAMBDA r : r.step_id = stepId /\ ~isParentRow(r))

\* countStepIterations(runId, stepId)
countStepIterations(rows, stepId) == Len(getStepIterations(rows, stepId))

\* createStep(execId, runId, stepId, iteration?): inserts a pending row
createStep(stepId, iteration) ==
  /\ pc = "store"
  /\ Len(db) < MaxRows
  /\ isParentRow([iteration_index |-> iteration]) => ~hasMainStep(db, stepId)
  /\ ~isParentRow([iteration_index |-> iteration]) => hasMainStep(db, stepId)
  /\ db' = Append(db, [step_id |-> stepId, iteration_index |-> iteration,
                       status |-> "pending", started_at |-> 0,
                       output |-> NoOutput, error |-> 0])
  /\ UNCHANGED <<pc, workflow, clock, foreachLen, stepContexts, schedVars>>
  /\ UNCHANGED exceptRun

\* startStep(execId): pending -> running, sets started_at. Rows are started
\* in creation order: the executor creates and starts an execution back to
\* back, and a retry is created after the attempt before it has ended.
dbStartStep(execId) ==
  /\ pc = "store"
  /\ execId \in DOMAIN db
  /\ db[execId].status = "pending"
  /\ \A j \in DOMAIN db : j > execId => db[j].started_at = 0
  /\ clock' = clock + 1
  /\ db' = [db EXCEPT ![execId].status = "running", ![execId].started_at = clock']
  /\ UNCHANGED <<pc, workflow, foreachLen, stepContexts, schedVars>>
  /\ UNCHANGED exceptRun

\* completeStep(execId, status, output): records the outcome of a row that is
\* not terminal yet. The parent of a foreach is re-recorded as running with
\* the __foreachItems hint while its iterations execute.
completeStep(execId, status, output) ==
  /\ pc = "store"
  /\ execId \in DOMAIN db
  /\ db[execId].status \in {"pending", "running"}
  /\ status = "running" =>
       /\ isParentRow(db[execId])
       /\ db[execId].status = "running"
       /\ db[execId].output = NoOutput
       /\ output.kind = "foreachItems"
  /\ output.kind = "foreachItems" => status = "running"
  /\ output.kind = "value" => ~isParentRow(db[execId]) /\ status = "success"
  /\ status = "success" /\ ~isParentRow(db[execId]) => output.kind = "value"
  /\ output.kind = "array" => isParentRow(db[execId]) /\ status = "success"
  /\ db' = [db EXCEPT ![execId].status = status, ![execId].output = output,
                       ![execId].error = IF status = "failed" THEN execId ELSE 0]
  /\ UNCHANGED <<pc, workflow, clock, foreachLen, stepContexts, schedVars>>
  /\ UNCHANGED exceptRun

----------------------------------------------------------------------------
(* WorkflowState.restore *)

LARGE_DATASET_THRESHOLD == 500

\* a comparator that puts the oldest attempt of an index first
compareExecsOldestFirst(a, b) ==
  IF a.iteration_index # b.iteration_index
  THEN a.iteration_index - b.iteration_index
  ELSE IF a.started_at # 0 /\ b.started_at # 0
       THEN a.started_at - b.started_at
       ELSE 0

\* comparator of sortedExecs
compareExecs(a, b) ==
  IF a.iteration_index # b.iteration_index
  THEN a.iteration_index - b.iteration_index
  ELSE IF a.started_at # 0 /\ b.started_at # 0
       THEN b.started_at - a.started_at
       ELSE 0

\* stable insertion of x into the sorted sequence s
RECURSIVE insertExec(_, _)
insertExec(s, x) ==
  IF s = <<>> THEN <<x>>
  ELSE IF compareExecs(s[Len(s)], x) <= 0 THEN Append(s, x)
       ELSE Append(insertExec(SubSeq(s, 1, Len(s) - 1), x), s[Len(s)])

RECURSIVE sortExecs(_)
sortExecs(execs) ==
  IF execs = <<>> THEN <<>>
  ELSE insertExec(sortExecs(SubSeq(execs, 1, Len(execs) - 1)), execs[Len(execs)])

\* uniqueExecs: the first row of each iteration_index in sorted order
RECURSIVE uniqueExecs(_, _)
uniqueExecs(sorted, seenIndices) ==
  IF sorted = <<>> THEN <<>>
  ELSE IF Head(sorted).iteration_index \in seenIndices
       THEN uniqueExecs(Tail(sorted), seenIndices)
       ELSE <<Head(sorted)>> \o
            uniqueExecs(Tail(sorted), seenIndices \cup {Head(sorted).iteration_index})

isCompletedStatus(st) == st = "success" \/ st = "skipped"

\* items[]: one context per index up to the largest hydrated index, holes
\* filled with a pending context
itemsOfByPosition(unique) ==
  [i \in DOMAIN unique |->
     [status |-> unique[i].status, output |-> unique[i].output,
      error |-> unique[i].error]]

itemsOf(unique) ==
  LET indices == {unique[i].iteration_index : i \in DOMAIN unique}
      len == IF indices = {} THEN 0
             ELSE (CHOOSE m \in indices : \A k \in indices : k <= m) + 1
  IN [i \in 1..len |->
        IF (i - 1) \in indices
        THEN LET ex == unique[CHOOSE j \in DOMAIN unique :
                                unique[j].iteration_index = i - 1]
             IN [status |-> ex.status, output |-> ex.output, error |-> ex.error]
        ELSE [status |-> "pending", output |-> NoOutput, error |-> 0]]

\* expectedCount: length of the persisted __foreachItems, else of the
\* evaluated foreach expression, else -1
expectedCountOf(mainExec, evaluatedLen) ==
  IF mainExec.output.kind = "foreachItems" THEN mainExec.output.n
  ELSE evaluatedLen

hasAllItems(items, expectedCount) ==
  /\ expectedCount # -1
  /\ Len(items) = expectedCount

\* finalStatus of a foreach step whose parent row is not success/skipped
derivedStatus(mainExec, unique, items, evaluatedLen) ==
  LET persisted == mainExec.output.kind = "foreachItems"
      allSuccess ==
        /\ \A i \in DOMAIN unique : isCompletedStatus(unique[i].status)
        /\ ~(~persisted /\ evaluatedLen = -1)
      expectedCount == expectedCountOf(mainExec, evaluatedLen)
  IN IF allSuccess /\ hasAllItems(items, expectedCount)
        /\ mainExec.status # "success" /\ mainExec.status # "skipped"
     THEN "success"
     ELSE mainExec.status

\* count > LARGE_DATASET_THRESHOLD
isLargeDatasetOffByOne(count) == count > LARGE_DATASET_THRESHOLD + 1

isLargeDataset(count) == count > LARGE_DATASET_THRESHOLD

\* the rows beyond db are the iterations MaxItems + 1, MaxItems + 2, ... of the
\* foreach step, one row each, completed with success and an output
moreItems(more, large) ==
  [i \in 1..more |->
     [status |-> "success", output |-> IF large THEN NoOutput ELSE ValueOutput(1),
      error |-> 0]]

\* items[] of all the iteration rows; the output of a row is not loaded for a
\* large dataset
hydratedItems(unique, more, large) ==
  LET base == itemsOf(unique)
      loaded == [i \in DOMAIN base |->
                   IF large THEN [base[i] EXCEPT !.output = NoOutput] ELSE base[i]]
      padded == [i \in 1..(MaxItems + 1) |->
                   IF i \in DOMAIN loaded THEN loaded[i]
                   ELSE [status |-> "pending", output |-> NoOutput, error |-> 0]]
  IN IF more = 0 THEN loaded ELSE padded \o moreItems(more, large)

\* outputs[]: assigned at the index of every hydrated row of a dataset that
\* is not large
hydratedOutputs(unique, items, large) ==
  LET indices == {unique[i].iteration_index : i \in DOMAIN unique}
  IN IF large THEN <<>>
     ELSE [i \in DOMAIN items |->
             IF (i - 1) \in indices \/ i > MaxItems + 1 THEN items[i].output
             ELSE Hole]

\* ForeachExecutor.aggregateOutputs: the merge of the iteration outputs when
\* each of them is a plain object, later items overwriting earlier keys
aggregateOutputs(outputs) ==
  IF outputs # <<>> /\ \A i \in DOMAIN outputs : outputs[i].kind = "value"
  THEN {<<"result", outputs[Len(outputs)].v>>}
  ELSE {}

\* the array stored in the parent row of a completed foreach
parentOutputs(mainExec) ==
  IF mainExec.output.kind = "array"
  THEN [i \in 1..mainExec.output.n |-> ValueOutput(1)]
  ELSE <<>>

\* the context restore() sets for a step that has a main row
hydrateStep(stepDef, rows, more, evaluatedLen) ==
  LET mainExec == getMainStep(rows, stepDef.id)
  IN IF stepDef.foreach
     THEN IF isCompletedStatus(mainExec.status)
          THEN LET outputs == parentOutputs(mainExec)
               IN [status |-> mainExec.status,
                   items |-> [i \in DOMAIN outputs |->
                                [status |-> "success", output |-> outputs[i],
                                 error |-> 0]],
                   output |-> outputs,
                   outputs |-> aggregateOutputs(outputs)]
          ELSE LET count == countStepIterations(rows, stepDef.id) + more
                   large == isLargeDataset(count)
                   unique == uniqueExecs(sortExecs(getStepIterations(rows, stepDef.id)), {})
                   items == hydratedItems(unique, more, large)
                   outputs == hydratedOutputs(unique, items, large)
               IN [status |-> derivedStatus(mainExec, unique, items, evaluatedLen),
                   items |-> items,
                   output |-> IF large THEN <<>> ELSE outputs,
                   outputs |-> IF large THEN {} ELSE aggregateOutputs(outputs)]
     ELSE [status |-> mainExec.status, items |-> <<>>, output |-> <<>>,
           outputs |-> {}]

\* a restore() that persisted the derived status of the parent row
RestoreWriteThrough ==
  /\ pc = "store"
  /\ pc' = "hydrated"
  /\ stepContexts' =
       [id \in {workflow[i].id : i \in {j \in DOMAIN workflow :
                                          hasMainStep(db, workflow[j].id)}} |->
          hydrateStep(stepMap(workflow, id), db, moreRows, foreachLen)]
  /\ db' = [e \in DOMAIN db |->
              IF isParentRow(db[e]) /\ db[e].step_id \in DOMAIN stepContexts'
              THEN [db[e] EXCEPT !.status = stepContexts'[db[e].step_id].status]
              ELSE db[e]]
  /\ UNCHANGED <<workflow, clock, foreachLen, schedVars>>
  /\ UNCHANGED exceptRun

\* restore(): hydrate every step of the workflow that has a main row; the
\* store is only read
Restore ==
  /\ pc = "store"
  /\ pc' = "hydrated"
  /\ stepContexts' =
       [id \in {workflow[i].id : i \in {j \in DOMAIN workflow :
                                          hasMainStep(db, workflow[j].id)}} |->
          hydrateStep(stepMap(workflow, id), db, moreRows, foreachLen)]
  /\ UNCHANGED <<workflow, db, clock, foreachLen, schedVars>>
  /\ UNCHANGED exceptRun

----------------------------------------------------------------------------
(* Specification of a (resumed) run driven through the scheduler *)

\* statuses a hydrated step context can carry; a step without a row has none
HydratedContexts ==
  UNION {[S -> [status : StepStatus, items : {<<>>}, output : {<<>>},
                outputs : {{}}]] : S \in SUBSET StepIdSet}

SchedIdle ==
  /\ executionOrder = <<>>
  /\ pendingSteps = <<>>
  /\ runningSteps = {}
  /\ completedSteps = {}
  /\ alreadyCompleted = {}
  /\ runnable = <<>>
  /\ runningCount = 0
  /\ completeEvents = {}
  /\ startEvents = {}
  /\ failedEvents = {}

Init ==
  /\ pc = "hydrated"
  /\ workflow \in Workflows
  /\ db = <<>>
  /\ clock = 0
  /\ foreachLen = 0
  /\ stepContexts \in HydratedContexts
  /\ globalCap \in 1..MaxCap
  /\ SchedIdle
  /\ AuxIdle
  /\ PoolIdle /\ RecoveryIdle /\ RedactionIdle /\ BreakerIdle
  /\ LimiterIdle /\ TimeoutIdle

Next ==
  \/ NewScheduler
  \/ GetRunnableSteps
  \/ \E s \in StepIdSet : startStep(s)
  \/ \E s \in StepIdSet : markStepComplete(s)
  \/ \E s \in StepIdSet : markStepFailed(s)

Spec == Init /\ [][Next]_vars

\* the main loop of a run in which no step fails: every started step is
\* eventually marked complete
NextProgress ==
  \/ NewScheduler
  \/ GetRunnableSteps
  \/ \E s \in StepIdSet : startStep(s)
  \/ \E s \in StepIdSet : markStepComplete(s)

SpecProgress == Init /\ [][NextProgress]_vars /\ WF_vars(NextProgress)

\* workflows of four steps a, b, c, d, each needing any of the steps declared
\* before it: two steps can wait for different needs
WideWorkflows ==
  {<< [id |-> "a", type |-> "shell", needs |-> {}, foreach |-> FALSE],
      [id |-> "b", type |-> "shell", needs |-> nb, foreach |-> FALSE],
      [id |-> "c", type |-> "shell", needs |-> nc, foreach |-> FALSE],
      [id |-> "d", type |-> "shell", needs |-> nd, foreach |-> FALSE] >> :
     nb \in SUBSET {"a"}, nc \in SUBSET {"a", "b"}, nd \in SUBSET {"a", "b", "c"}}

\* a fresh run, or a resumed run in which step a was restored as success
InitWide ==
  /\ pc = "hydrated"
  /\ workflow \in WideWorkflows
  /\ db = <<>>
  /\ clock = 0
  /\ foreachLen = 0
  /\ stepContexts \in
       {<<>>, [id \in {"a"} |-> [status |-> "success", items |-> <<>>,
                                 output |-> <<>>, outputs |-> {}]]}
  /\ globalCap \in 1..MaxCap
  /\ SchedIdle
  /\ AuxIdle
  /\ PoolIdle /\ RecoveryIdle /\ RedactionIdle /\ BreakerIdle
  /\ LimiterIdle /\ TimeoutIdle

NextWide ==
  \/ NewScheduler
  \/ GetRunnableSteps
  \/ \E i \in DOMAIN workflow : startStep(workflow[i].id)
  \/ \E i \in DOMAIN workflow : markStepComplete(workflow[i].id)
  \/ \E i \in DOMAIN workflow : markStepFailed(workflow[i].id)

SpecWide == InitWide /\ [][NextWide]_vars

----------------------------------------------------------------------------
(* Specification of hydration: a first process drives the store, then the   *)
(* run is resumed: restore() hydrates the state and the scheduler is built  *)

\* the workflow of tests/runner/foreach_restore.test.ts
ForeachWorkflow ==
  << [id |-> "foreach_step", type |-> "shell", needs |-> {}, foreach |-> TRUE],
     [id |-> "next_step", type |-> "shell", needs |-> {"foreach_step"},
      foreach |-> FALSE] >>

RecordedStatus == {"running", "success", "failed", "skipped"}

RecordedOutput ==
  {NoOutput, ValueOutput(1)} \cup {ForeachItemsOutput(n) : n \in 0..MaxItems}

\* the output the executor stores in the parent row of a foreach step when
\* it completes it: one output per iteration row
aggregatedOutput(e) ==
  IF e \in DOMAIN db
  THEN {ArrayOutput(countStepIterations(db, db[e].step_id) + moreRows)}
  ELSE {}

InitHydrate ==
  /\ pc = "store"
  /\ workflow = ForeachWorkflow
  /\ db = <<>>
  /\ clock = 0
  /\ foreachLen \in {-1, MaxItems}
  /\ stepContexts = <<>>
  /\ globalCap = 1
  /\ SchedIdle
  /\ AuxIdle
  /\ PoolIdle /\ RecoveryIdle /\ RedactionIdle /\ BreakerIdle
  /\ LimiterIdle /\ TimeoutIdle

NextHydrate ==
  \/ \E i \in DOMAIN workflow :
       \E it \in -1..MaxItems :
         /\ workflow[i].foreach
         /\ createStep(workflow[i].id, it)
  \/ \E e \in 1..MaxRows : dbStartStep(e)
  \/ \E e \in 1..MaxRows, st \in RecordedStatus :
       \E out \in RecordedOutput \cup aggregatedOutput(e) :
         completeStep(e, st, out)
  \/ Restore

SpecHydrate == InitHydrate /\ [][NextHydrate]_vars

\* the executor has run the iterations MaxItems + 1, MaxItems + 2, ... of the
\* foreach step to success: as many as the threshold of a large dataset
RunManyIterations ==
  /\ pc = "store"
  /\ moreRows = 0
  /\ \E i \in DOMAIN workflow :
       /\ workflow[i].foreach
       /\ hasMainStep(db, workflow[i].id)
       /\ getMainStep(db, workflow[i].id).status = "running"
  /\ moreRows' = LARGE_DATASET_THRESHOLD
  /\ UNCHANGED exceptStore

NextHydrateLarge ==
  \/ NextHydrate
  \/ RunManyIterations

\* hydration of a store that holds more rows than the model enumerates
SpecHydrateLarge == InitHydrate /\ [][NextHydrateLarge]_vars

----------------------------------------------------------------------------
(* Properties of hydration *)

ForeachStepId == "foreach_step"

\* N: length of the persisted __foreachItems, else of the evaluated foreach
\* expression (-1 when there is neither)
ExpectedN ==
  LET parent == getMainStep(db, ForeachStepId)
  IN IF parent.output.kind = "foreachItems" THEN parent.output.n ELSE foreachLen

IterationRows == {e \in DOMAIN db : db[e].step_id = ForeachStepId /\ db[e].iteration_index >= 0}

\* the parent row is running or pending, every index 0..N-1 has an iteration
\* row, and every iteration row is success or skipped
AllExpectedIterationsDone ==
  /\ hasMainStep(db, ForeachStepId)
  /\ getMainStep(db, ForeachStepId).status \in {"running", "pending"}
  /\ ExpectedN >= 0
  /\ \A i \in 0..(ExpectedN - 1) : \E e \in IterationRows : db[e].iteration_index = i
  /\ \A e \in IterationRows : db[e].status \in {"success", "skipped"}

\* C3 - Derived-status promotion: when the parent row of a foreach step is
\* running or pending and every index 0..N-1 has an iteration row with status
\* success or skipped, restore() yields the in-memory status success, so the
\* step counts as completed for scheduling.
DerivedStatusPromotion ==
  (pc = "hydrated" /\ AllExpectedIterationsDone) =>
     /\ ForeachStepId \in DOMAIN stepContexts
     /\ stepContexts[ForeachStepId].status = "success"
     /\ ForeachStepId \in getCompletedStepIds(stepContexts)

\* what restore() does guarantee: the promotion happens when, in addition, no
\* iteration row has an index of N or more
PromotionWithoutStaleRows ==
  (/\ pc = "hydrated"
   /\ AllExpectedIterationsDone
   /\ \A e \in IterationRows : db[e].iteration_index < ExpectedN) =>
     /\ ForeachStepId \in DOMAIN stepContexts
     /\ stepContexts[ForeachStepId].status = "success"
     /\ ForeachStepId \in getCompletedStepIds(stepContexts)

\* a running parent with two expected iterations, one success and one skipped,
\* was hydrated as success
PromotionWithoutStaleRowsWitness ==
  /\ pc = "hydrated"
  /\ AllExpectedIterationsDone
  /\ ExpectedN = 2
  /\ getMainStep(db, ForeachStepId).status = "running"
  /\ \E e \in IterationRows : db[e].status = "skipped"
  /\ \E e \in IterationRows : db[e].status = "success"
  /\ \A e \in IterationRows : db[e].iteration_index < ExpectedN
  /\ stepContexts[ForeachStepId].status = "success"

\* the parent row is not success/skipped and N is known
ParentIncomplete ==
  /\ hasMainStep(db, ForeachStepId)
  /\ getMainStep(db, ForeachStepId).status \notin {"success", "skipped"}
  /\ ExpectedN >= 0

\* every expected iteration 0..N-1 has a row that is success or skipped
EveryExpectedIterationDone ==
  \A i \in 0..(ExpectedN - 1) :
    \E e \in IterationRows : /\ db[e].iteration_index = i
                             /\ db[e].status \in {"success", "skipped"}

\* C14 - Foreach parent status is derived: after restore(), the in-memory
\* status of a foreach step whose parent row is not yet success/skipped is
\* success if and only if every expected iteration 0..N-1 has a row whose
\* status is success or skipped.
ForeachStatusDerived ==
  (pc = "hydrated" /\ ParentIncomplete) =>
     /\ ForeachStepId \in DOMAIN stepContexts
     /\ (stepContexts[ForeachStepId].status = "success") <=> EveryExpectedIterationDone

\* restore() reported success for a foreach step of which an expected
\* iteration has no row at all
PromotedWithMissingIteration ==
  /\ pc = "hydrated"
  /\ ParentIncomplete
  /\ stepContexts[ForeachStepId].status = "success"
  /\ \E i \in 0..(ExpectedN - 1) : \A e \in IterationRows : db[e].iteration_index # i

\* C4 - No write-through on hydration: restore() leaves every row of the store
\* as it was; a parent row promoted in memory keeps its stored status.
NoWriteThrough == [][stepContexts' # stepContexts => db' = db]_vars

\* restore() promoted a foreach step whose stored parent row is still running
NoWriteThroughWitness ==
  /\ pc = "hydrated"
  /\ ForeachStepId \in DOMAIN stepContexts
  /\ stepContexts[ForeachStepId].status = "success"
  /\ getMainStep(db, ForeachStepId).status = "running"

----------------------------------------------------------------------------
(* Properties of the scheduler *)

needsOf(id) == stepMap(workflow, id).needs

\* C1 - Topological soundness: a step is returned by getRunnableSteps, and
\* started, only after markStepComplete has been called for each of its needs
\* or the need was in the constructor's alreadyCompleted seed.
TopologicalSoundness ==
  /\ \A i \in DOMAIN runnable :
       \A a \in needsOf(runnable[i]) : a \in alreadyCompleted \cup completeEvents
  /\ \A b \in startEvents :
       \A a \in needsOf(b) : a \in alreadyCompleted \cup completeEvents

\* a step with a need was started after that need was marked complete in this run
TopologicalSoundnessWitness ==
  \E b \in startEvents :
    \E a \in needsOf(b) : a \in completeEvents /\ a \notin alreadyCompleted

\* C2 - No re-execution on resume: a step restored as success or skipped is
\* never returned by getRunnableSteps and never enters the running set.
NoReExecution ==
  pc = "scheduling" =>
    \A s \in getCompletedStepIds(stepContexts) :
      /\ s \in alreadyCompleted
      /\ s \notin Range(runnable)
      /\ s \notin runningSteps
      /\ s \notin startEvents

\* the resumed run drained: a restored-complete step whose needs were all
\* complete was passed over while another step was started and completed
NoReExecutionWitness ==
  /\ pc = "scheduling"
  /\ isComplete
  /\ completeEvents # {}
  /\ \E s \in getCompletedStepIds(stepContexts) :
       /\ stepContexts[s].status = "skipped"
       /\ needsOf(s) \subseteq alreadyCompleted
       /\ s \notin startEvents

----------------------------------------------------------------------------
(* ResourcePoolManager (runner/resource-pool.ts): named semaphores with a   *)
(* priority queue of waiters, modelled from the specification and from      *)
(* resource-pool.test.ts                                                    *)

MaxCallers == 3

MaxLimit == 2

Callers == 1..MaxCallers

PoolNames == {"test", "unknown"}

\* priorities used by the callers; 0 is the default priority
Priorities == {0, 5, 10}

\* capacity of a pool: its configured limit, else defaultLimit
capacityOf(options, name) ==
  IF name \in DOMAIN options.pools THEN options.pools[name] ELSE options.defaultLimit

\* the pool record, created on first use
getPool(ps, options, name) ==
  IF name \in DOMAIN ps THEN ps[name]
  ELSE [limit |-> capacityOf(options, name), active |-> 0, queue |-> <<>>,
        totalAcquired |-> 0]

setPool(ps, name, pool) ==
  [n \in DOMAIN ps \cup {name} |-> IF n = name THEN pool ELSE ps[n]]

hasFreeSlotOffByOne(pool) == pool.active <= pool.limit

hasFreeSlot(pool) == pool.active < pool.limit

\* the waiter queue is ordered by (-priority, seq)
enqueueFifo(queue, w) == Append(queue, w)

RECURSIVE enqueue(_, _)
enqueue(queue, w) ==
  IF queue = <<>> THEN <<w>>
  ELSE IF Head(queue).priority < w.priority THEN <<w>> \o queue
       ELSE <<Head(queue)>> \o enqueue(Tail(queue), w)

removeWaiter(queue, c) == SelectSeq(queue, LAMBDA w : w.caller # c)

\* acquire(poolName, {priority}): takes a slot, or queues the caller
Acquire(c, name, priority) ==
  /\ callers[c].state = "idle"
  /\ LET pool == getPool(pools, poolOptions, name)
     IN IF hasFreeSlot(pool)
        THEN /\ pools' = setPool(pools, name,
                           [pool EXCEPT !.active = @ + 1, !.totalAcquired = @ + 1])
             /\ callers' = [callers EXCEPT ![c] =
                              [state |-> "holding", pool |-> name,
                               priority |-> priority, seq |-> 0]]
             /\ UNCHANGED nextSeq
        ELSE /\ nextSeq' = nextSeq + 1
             /\ pools' = setPool(pools, name,
                           [pool EXCEPT !.queue =
                              enqueue(@, [caller |-> c, priority |-> priority,
                                          seq |-> nextSeq'])])
             /\ callers' = [callers EXCEPT ![c] =
                              [state |-> "waiting", pool |-> name,
                               priority |-> priority, seq |-> nextSeq']]
  /\ UNCHANGED poolOptions
  /\ UNCHANGED exceptPool

\* a release() that never gives the slot back to the pool
ReleaseKeepsActive(c) ==
  /\ callers[c].state = "holding"
  /\ LET name == callers[c].pool
         pool == pools[name]
     IN IF pool.queue # <<>>
        THEN LET next == Head(pool.queue)
             IN /\ pools' = setPool(pools, name,
                              [pool EXCEPT !.queue = Tail(@),
                                           !.totalAcquired = @ + 1])
                /\ callers' = [callers EXCEPT ![c].state = "released",
                                              ![next.caller].state = "holding"]
        ELSE /\ pools' = pools
             /\ callers' = [callers EXCEPT ![c].state = "released"]
  /\ UNCHANGED <<poolOptions, nextSeq>>
  /\ UNCHANGED exceptPool

\* release(): returns the slot and hands it to the first waiter, if any
Release(c) ==
  /\ callers[c].state = "holding"
  /\ LET name == callers[c].pool
         pool == pools[name]
     IN IF pool.queue # <<>>
        THEN LET next == Head(pool.queue)
             IN /\ pools' = setPool(pools, name,
                              [pool EXCEPT !.queue = Tail(@),
                                           !.totalAcquired = @ + 1])
                /\ callers' = [callers EXCEPT ![c].state = "released",
                                              ![next.caller].state = "holding"]
        ELSE /\ pools' = setPool(pools, name, [pool EXCEPT !.active = @ - 1])
             /\ callers' = [callers EXCEPT ![c].state = "released"]
  /\ UNCHANGED <<poolOptions, nextSeq>>
  /\ UNCHANGED exceptPool

\* an abort that rejects the waiter and leaves it in the queue
AbortKeepQueued(c) ==
  /\ callers[c].state = "waiting"
  /\ callers' = [callers EXCEPT ![c].state = "aborted"]
  /\ UNCHANGED <<poolOptions, pools, nextSeq>>
  /\ UNCHANGED exceptPool

\* the signal of a queued acquire() aborts: the waiter leaves the queue and
\* its promise rejects with 'Acquisition aborted'
Abort(c) ==
  /\ callers[c].state = "waiting"
  /\ LET name == callers[c].pool
     IN pools' = setPool(pools, name,
                   [pools[name] EXCEPT !.queue = removeWaiter(@, c)])
  /\ callers' = [callers EXCEPT ![c].state = "aborted"]
  /\ UNCHANGED <<poolOptions, nextSeq>>
  /\ UNCHANGED exceptPool

InitPool ==
  /\ RunIdle /\ RecoveryIdle /\ RedactionIdle /\ BreakerIdle
  /\ AuxIdle
  /\ LimiterIdle /\ TimeoutIdle
  /\ \E l \in 1..MaxLimit, d \in 1..MaxLimit :
       poolOptions = [pools |-> [n \in {"test"} |-> l], defaultLimit |-> d]
  /\ pools = <<>>
  /\ callers = [c \in Callers |->
                  [state |-> "idle", pool |-> "test", priority |-> 0, seq |-> 0]]
  /\ nextSeq = 0

NextPool ==
  \/ \E c \in Callers, n \in PoolNames, pr \in Priorities : Acquire(c, n, pr)
  \/ \E c \in Callers : Release(c)
  \/ \E c \in Callers : Abort(c)

SpecPool == InitPool /\ [][NextPool]_vars

----------------------------------------------------------------------------
(* Properties of the resource pools *)

holdersOf(name) == {c \in Callers : callers[c].state = "holding" /\ callers[c].pool = name}

waitersOf(name) == {c \in Callers : callers[c].state = "waiting" /\ callers[c].pool = name}

\* C6 - Pool safety: the number of callers that acquired a pool and have not
\* released it never exceeds the pool's capacity (its configured limit, or
\* defaultLimit for a pool that is not configured).
PoolSafety ==
  \A name \in PoolNames :
    Cardinality(holdersOf(name)) <= capacityOf(poolOptions, name)

\* the unconfigured pool is saturated at defaultLimit with a waiter queued,
\* after a release and an abort took place
PoolSafetyWitness ==
  /\ Cardinality(holdersOf("unknown")) = poolOptions.defaultLimit
  /\ waitersOf("unknown") # {}
  /\ \E c \in Callers : callers[c].state = "released" /\ callers[c].pool = "unknown"

\* C7 - Priority ordering: a release of a saturated pool with queued waiters
\* grants the slot to the waiter of highest priority, the earliest queued among
\* equals; no waiter is granted a slot while a higher-priority waiter is queued.
PriorityOrdering ==
  [][/\ \A w \in Callers :
          (callers[w].state = "waiting" /\ callers'[w].state = "holding") =>
            \A v \in waitersOf(callers[w].pool) \ {w} :
              \/ callers[v].priority < callers[w].priority
              \/ /\ callers[v].priority = callers[w].priority
                 /\ callers[v].seq > callers[w].seq
     /\ \A c \in Callers :
          (/\ callers[c].state = "holding"
           /\ callers'[c].state = "released"
           /\ waitersOf(callers[c].pool) # {}) =>
            \E w \in waitersOf(callers[c].pool) : callers'[w].state = "holding"
    ]_vars

\* after a release, a waiter holds the slot ahead of a waiter that queued
\* earlier with a lower priority
PriorityOrderingWitness ==
  \E w \in Callers :
    /\ callers[w].state = "holding"
    /\ callers[w].seq > 0
    /\ \E v \in waitersOf(callers[w].pool) :
         callers[v].seq < callers[w].seq /\ callers[v].priority < callers[w].priority

----------------------------------------------------------------------------
(* Recovery wrappers of the runner (reflexion, auto_heal), modelled from    *)
(* the specification and from recovery-security.test.ts                     *)

MaxRecoveryAttempts == 2

StepFields == {"id", "type", "run", "prompt", "inputs"}

\* the fields a recovery patch may set
PatchWhitelist == {"run", "prompt", "inputs"}

\* what a model response or healer output may carry for each field
PatchValues ==
  [id |-> {"malicious-id"}, type |-> {"script"}, run |-> {"echo fixed"},
   prompt |-> {"revised prompt"}, inputs |-> {"revised inputs"}]

Patches ==
  UNION {{p \in [S -> UNION {PatchValues[f] : f \in StepFields}] :
            \A f \in S : p[f] \in PatchValues[f]} : S \in SUBSET StepFields}

\* the failing step of the tests
FailStep ==
  [id |-> "fail-step", type |-> "shell", run |-> "exit 1",
   prompt |-> "prompt", inputs |-> "inputs"]

healerStep(step) ==
  [id |-> "fail-step-healer", type |-> "llm", run |-> "",
   prompt |-> "heal", inputs |-> step.inputs]

applyPatchUnfiltered(step, patch) ==
  [f \in DOMAIN step |-> IF f \in DOMAIN patch THEN patch[f] ELSE step[f]]

\* the patched step definition: whitelisted fields of the patch, the rest
\* from the step
applyPatch(step, patch) ==
  [f \in DOMAIN step |->
     IF f \in DOMAIN patch /\ f \in PatchWhitelist THEN patch[f] ELSE step[f]]

\* the executor runs the current step definition and fails or succeeds
ExecuteStep(outcome) ==
  /\ recPhase = "run"
  /\ recCalls' = Append(recCalls, [kind |-> "step", step |-> recCurrent])
  /\ recPhase' = IF outcome = "success" THEN "done" ELSE "failed"
  /\ UNCHANGED <<recStep, recCurrent, recAttempts>>
  /\ UNCHANGED exceptRecovery

\* reflexion: the model returns a patch for the failed step; retry with it
Reflexion(patch) ==
  /\ recPhase = "failed"
  /\ recStep.policy = "reflexion"
  /\ recAttempts < recStep.limit
  /\ recCurrent' = applyPatch(recCurrent, patch)
  /\ recAttempts' = recAttempts + 1
  /\ recPhase' = "run"
  /\ UNCHANGED <<recStep, recCalls>>
  /\ UNCHANGED exceptRecovery

\* auto_heal: the healer step <id>-healer is executed
RunHealer ==
  /\ recPhase = "failed"
  /\ recStep.policy = "auto_heal"
  /\ recAttempts < recStep.limit
  /\ recCalls' = Append(recCalls, [kind |-> "healer", step |-> healerStep(recCurrent)])
  /\ recAttempts' = recAttempts + 1
  /\ recPhase' = "healing"
  /\ UNCHANGED <<recStep, recCurrent>>
  /\ UNCHANGED exceptRecovery

\* auto_heal: the healer's output patches the failed step; retry with it
AutoHeal(patch) ==
  /\ recPhase = "healing"
  /\ recCurrent' = applyPatch(recCurrent, patch)
  /\ recPhase' = "run"
  /\ UNCHANGED <<recStep, recCalls, recAttempts>>
  /\ UNCHANGED exceptRecovery

\* the attempts are used up: the failure stands
GiveUp ==
  /\ recPhase = "failed"
  /\ recAttempts >= recStep.limit
  /\ recPhase' = "done"
  /\ UNCHANGED <<recStep, recCurrent, recCalls, recAttempts>>
  /\ UNCHANGED exceptRecovery

InitRecovery ==
  /\ RunIdle /\ PoolIdle /\ RedactionIdle /\ BreakerIdle
  /\ AuxIdle
  /\ LimiterIdle /\ TimeoutIdle
  /\ \E pol \in {"reflexion", "auto_heal"}, l \in 1..MaxRecoveryAttempts :
       recStep = [step |-> FailStep, policy |-> pol, limit |-> l]
  /\ recCurrent = FailStep
  /\ recPhase = "run"
  /\ recCalls = <<>>
  /\ recAttempts = 0

NextRecovery ==
  \/ \E o \in {"success", "failed"} : ExecuteStep(o)
  \/ \E p \in Patches : Reflexion(p)
  \/ RunHealer
  \/ \E p \in Patches : AutoHeal(p)
  \/ GiveUp

SpecRecovery == InitRecovery /\ [][NextRecovery]_vars

----------------------------------------------------------------------------
(* Properties of the recovery wrappers *)

\* C8 - Recovery whitelist: whatever the reflexion or healer patch contains,
\* every execution of the step, retries included, receives a step definition
\* with the id and the type of the original step.
RecoveryWhitelist ==
  \A i \in DOMAIN recCalls :
    recCalls[i].kind = "step" =>
      /\ recCalls[i].step.id = recStep.step.id
      /\ recCalls[i].step.type = recStep.step.type

\* a retry ran with the run command of a patch that also tried to set id
\* and type
RecoveryWhitelistWitness ==
  /\ Len(recCalls) >= 2
  /\ recCalls[Len(recCalls)].kind = "step"
  /\ recCalls[Len(recCalls)].step.run = "echo fixed"
  /\ recCalls[Len(recCalls)].step.prompt = "prompt"
  /\ recCalls[Len(recCalls)].step.id = "fail-step"
  /\ recStep.policy = "auto_heal"

----------------------------------------------------------------------------
(* Redactor and RedactionBuffer (utils/redactor.ts). A string is a sequence *)
(* of one-character strings.                                                *)

MaxText == 6

\* characters of the streamed text: two word characters and a blank
Chars == {"a", "b", " "}

\* the replacement '***REDACTED***'
MASK == <<"*", "*", "*", "R", "E", "D", "A", "C", "T", "E", "D", "*", "*", "*">>

\* \w
isWordChar(c) == c \in {"a", "b", "R", "E", "D", "A", "C", "T"}

\* keys of the model that contain one of the sensitive terms
isSensitiveKey(key) == key \in {"API_TOKEN"}

Contains(text, v) ==
  \E i \in 1..(Len(text) - Len(v) + 1) : SubSeq(text, i, i + Len(v) - 1) = v

\* values kept by the constructor, in insertion order, without duplicates
RECURSIVE secretsToRedact(_, _)
secretsToRedact(entries, seen) ==
  IF entries = <<>> THEN <<>>
  ELSE LET e == Head(entries)
           keep == /\ Len(e.value) > 0
                   /\ (isSensitiveKey(e.key) \/ Len(e.value) >= 3)
                   /\ e.value \notin seen
       IN IF keep
          THEN <<e.value>> \o secretsToRedact(Tail(entries), seen \cup {e.value})
          ELSE secretsToRedact(Tail(entries), seen)

\* stable sort, longest first
RECURSIVE insertByLength(_, _)
insertByLength(sorted, v) ==
  IF sorted = <<>> THEN <<v>>
  ELSE IF Len(sorted[Len(sorted)]) >= Len(v) THEN Append(sorted, v)
       ELSE Append(insertByLength(SubSeq(sorted, 1, Len(sorted) - 1), v),
                   sorted[Len(sorted)])

RECURSIVE uniqueSecrets(_)
uniqueSecrets(values) ==
  IF values = <<>> THEN <<>>
  ELSE insertByLength(uniqueSecrets(SubSeq(values, 1, Len(values) - 1)),
                      values[Len(values)])

\* the regular expression built for a secret: word boundaries only for a
\* secret shorter than 5, on the sides where it starts or ends with \w
patternOf(secret) ==
  IF Len(secret) < 5
  THEN [value |-> secret,
        startBoundary |-> isWordChar(secret[1]),
        endBoundary |-> isWordChar(secret[Len(secret)])]
  ELSE [value |-> secret, startBoundary |-> FALSE, endBoundary |-> FALSE]

RECURSIVE maxLength(_)
maxLength(values) ==
  IF values = <<>> THEN 0 ELSE Max(Len(Head(values)), maxLength(Tail(values)))

\* new Redactor(secrets)
Redactor(entries) ==
  LET unique == uniqueSecrets(secretsToRedact(entries, {}))
  IN [patterns |-> [i \in DOMAIN unique |-> patternOf(unique[i])],
      maxSecretLength |-> maxLength(unique)]

\* \b before position k of text (k = Len(text) + 1: at the end)
wordBoundary(text, k) ==
  LET before == k > 1 /\ isWordChar(text[k - 1])
      after  == k <= Len(text) /\ isWordChar(text[k])
  IN before # after

matchesAt(text, i, pat) ==
  /\ i + Len(pat.value) - 1 <= Len(text)
  /\ SubSeq(text, i, i + Len(pat.value) - 1) = pat.value
  /\ pat.startBoundary => wordBoundary(text, i)
  /\ pat.endBoundary => wordBoundary(text, i + Len(pat.value))

\* text.replace(pattern, MASK) without the g flag: the first match only
RECURSIVE replaceFirstFrom(_, _, _)
replaceFirstFrom(text, i, pat) ==
  IF i > Len(text) THEN <<>>
  ELSE IF matchesAt(text, i, pat)
       THEN MASK \o SubSeq(text, i + Len(pat.value), Len(text))
       ELSE <<text[i]>> \o replaceFirstFrom(text, i + 1, pat)

\* text.replace(pattern, MASK) with the g flag, scanning from position i
RECURSIVE replaceFrom(_, _, _)
replaceFrom(text, i, pat) ==
  IF i > Len(text) THEN <<>>
  ELSE IF matchesAt(text, i, pat)
       THEN MASK \o replaceFrom(text, i + Len(pat.value), pat)
       ELSE <<text[i]>> \o replaceFrom(text, i + 1, pat)

RECURSIVE applyPatterns(_, _)
applyPatterns(text, patterns) ==
  IF patterns = <<>> THEN text
  ELSE applyPatterns(replaceFrom(text, 1, Head(patterns)), Tail(patterns))

\* Redactor.redact(text)
redact(redactor, text) ==
  IF Len(text) < 3 THEN text ELSE applyPatterns(text, redactor.patterns)

\* a process() that emits the whole redacted buffer
processChunkNoTail(redactor, buffer, chunk) ==
  [output |-> redact(redactor, buffer \o chunk), buffer |-> <<>>]

\* a process() that holds back one character less than the longest secret
processChunkShortTail(redactor, buffer, chunk) ==
  LET redactedBuffer == redact(redactor, buffer \o chunk)
  IN IF Len(redactedBuffer) < redactor.maxSecretLength
     THEN [output |-> <<>>, buffer |-> redactedBuffer]
     ELSE LET safeLength == Len(redactedBuffer) - redactor.maxSecretLength + 1
          IN [output |-> SubSeq(redactedBuffer, 1, safeLength),
              buffer |-> SubSeq(redactedBuffer, safeLength + 1, Len(redactedBuffer))]

\* RedactionBuffer.process(chunk): the emitted text and the new buffer
processChunk(redactor, buffer, chunk) ==
  LET redactedBuffer == redact(redactor, buffer \o chunk)
  IN IF Len(redactedBuffer) < redactor.maxSecretLength
     THEN [output |-> <<>>, buffer |-> redactedBuffer]
     ELSE LET safeLength == Len(redactedBuffer) - redactor.maxSecretLength
          IN [output |-> SubSeq(redactedBuffer, 1, safeLength),
              buffer |-> SubSeq(redactedBuffer, safeLength + 1, Len(redactedBuffer))]

\* RedactionBuffer.flush(): the emitted text
flushBuffer(redactor, buffer) == redact(redactor, buffer)

Process(chunk) ==
  /\ ~rbFlushed
  /\ Len(rbInput) + Len(chunk) <= MaxText
  /\ LET r == processChunk(Redactor(secrets), rbBuffer, chunk)
     IN /\ rbBuffer' = r.buffer
        /\ rbOutput' = rbOutput \o r.output
  /\ rbInput' = rbInput \o chunk
  /\ rbCalls' = rbCalls + 1
  /\ UNCHANGED <<secrets, rbFlushed>>
  /\ UNCHANGED exceptRedaction

Flush ==
  /\ ~rbFlushed
  /\ rbOutput' = rbOutput \o flushBuffer(Redactor(secrets), rbBuffer)
  /\ rbBuffer' = <<>>
  /\ rbFlushed' = TRUE
  /\ UNCHANGED <<secrets, rbInput, rbCalls>>
  /\ UNCHANGED exceptRedaction

\* the secrets maps of the model: a 3-character and a 5-character value under
\* ordinary keys, a 2-character value under a sensitive key, and a second
\* 5-character value that can (other) or cannot (apart) overlap the first in
\* a text
SecretConfigs ==
  LET short == [key |-> "MY_SECRET", value |-> <<"a", "b", "a">>]
      long  == [key |-> "DB_NAME", value |-> <<"a", "b", "a", "b", "a">>]
      token == [key |-> "API_TOKEN", value |-> <<"a", "b">>]
      other == [key |-> "DB_USER", value |-> <<"b", "a", "b", "a", "b">>]
      apart == [key |-> "DB_HOST", value |-> <<"b", "b", "b", "b", "b">>]
  IN {<<short>>, <<long>>, <<short, long>>, <<token, long>>, <<token, short>>,
      <<long, other>>, <<long, apart>>}

\* the chunks that still fit in a text of at most MaxText characters
Chunks(room) == UNION {[1..n -> Chars] : n \in 1..room}

InitRedaction ==
  /\ RunIdle /\ PoolIdle /\ RecoveryIdle /\ BreakerIdle
  /\ AuxIdle
  /\ LimiterIdle /\ TimeoutIdle
  /\ secrets \in SecretConfigs
  /\ rbBuffer = <<>>
  /\ rbInput = <<>>
  /\ rbOutput = <<>>
  /\ rbCalls = 0
  /\ rbFlushed = FALSE

NextRedaction ==
  \/ \E chunk \in Chunks(MaxText - Len(rbInput)) : Process(chunk)
  \/ Flush

SpecRedaction == InitRedaction /\ [][NextRedaction]_vars

----------------------------------------------------------------------------
(* Properties of streaming redaction *)

secretValues == {secrets[i].value : i \in DOMAIN secrets}

\* C9 as stated - Streaming redaction: whatever the text and its split into
\* chunks, the text emitted by process() and flush() contains no configured
\* secret value of length at least 3.
NoSecretInOutput ==
  \A v \in secretValues : Len(v) >= 3 => ~Contains(rbOutput, v)

\* C9 amended - the emitted text contains no configured secret value of
\* length at least 5 (shorter values are masked only between word boundaries).
NoLongSecretInOutput ==
  \A v \in secretValues : Len(v) >= 5 => ~Contains(rbOutput, v)

\* a text holding the 5-character secret arrived in chunks of at most 3
\* characters, so the secret was split, and left the buffer masked
NoLongSecretInOutputWitness ==
  /\ rbFlushed
  /\ Len(rbInput) = 6
  /\ rbCalls >= 4
  /\ \E v \in secretValues : Len(v) >= 5 /\ Contains(rbInput, v)
  /\ Contains(rbOutput, MASK)

----------------------------------------------------------------------------
(* CircuitBreaker (utils/circuit-breaker.ts) *)

MaxThreshold == 2
MaxTimeout == 2
MaxTime == 3
MaxFailures == 3

CircuitState == {"CLOSED", "OPEN", "HALF_OPEN"}

\* the constructor's options; successThreshold defaults to 1
CircuitBreakerOptions ==
  [failureThreshold : 1..MaxThreshold,
   resetTimeout : 1..MaxTimeout,
   successThreshold : 1..MaxThreshold]

\* a transitionTo that clears the success count only on closing
transitionToKeepSuccesses(newState, fc, sc) ==
  [state |-> newState,
   failureCount |-> IF newState = "CLOSED" THEN 0 ELSE fc,
   successCount |-> IF newState = "CLOSED" THEN 0 ELSE sc]

\* transitionTo(newState), applied to the counters fc and sc
transitionTo(newState, fc, sc) ==
  [state |-> newState,
   failureCount |-> IF newState = "CLOSED" THEN 0 ELSE fc,
   successCount |-> IF newState \in {"CLOSED", "HALF_OPEN"} THEN 0 ELSE sc]

\* the history counts after a step that leaves the circuit in state st
countFailures(st, count) ==
  IF st = "CLOSED" /\ cbState # "CLOSED" THEN 0 ELSE count

\* an isAllowed getter that half-opens an OPEN circuit without waiting
IsAllowedNoTimeout ==
  /\ IF cbState = "OPEN"
     THEN LET t == transitionTo("HALF_OPEN", failureCount, successCount)
          IN /\ cbState' = t.state
             /\ failureCount' = t.failureCount
             /\ successCount' = t.successCount
     ELSE UNCHANGED <<cbState, failureCount, successCount>>
  /\ lastOp' = "isAllowed"
  /\ UNCHANGED <<cbOptions, lastFailureTime, now, consecutiveFailures,
                 failuresSinceReset>>
  /\ UNCHANGED exceptBreaker

\* the isAllowed getter
IsAllowed ==
  /\ IF cbState = "OPEN" /\ now - lastFailureTime >= cbOptions.resetTimeout
     THEN LET t == transitionTo("HALF_OPEN", failureCount, successCount)
          IN /\ cbState' = t.state
             /\ failureCount' = t.failureCount
             /\ successCount' = t.successCount
     ELSE UNCHANGED <<cbState, failureCount, successCount>>
  /\ lastOp' = "isAllowed"
  /\ UNCHANGED <<cbOptions, lastFailureTime, now, consecutiveFailures,
                 failuresSinceReset>>
  /\ UNCHANGED exceptBreaker

\* an onSuccess() that keeps the failure count
OnSuccessKeepCount ==
  /\ IF cbState = "HALF_OPEN" /\ successCount + 1 >= cbOptions.successThreshold
     THEN LET t == transitionTo("CLOSED", failureCount, successCount + 1)
          IN /\ cbState' = t.state
             /\ failureCount' = t.failureCount
             /\ successCount' = t.successCount
     ELSE /\ successCount' = IF cbState = "HALF_OPEN" THEN successCount + 1
                             ELSE successCount
          /\ UNCHANGED <<cbState, failureCount>>
  /\ consecutiveFailures' = 0
  /\ failuresSinceReset' = 0
  /\ lastOp' = "onSuccess"
  /\ UNCHANGED <<cbOptions, lastFailureTime, now>>
  /\ UNCHANGED exceptBreaker

OnSuccess ==
  /\ IF cbState = "HALF_OPEN" /\ successCount + 1 >= cbOptions.successThreshold
     THEN LET t == transitionTo("CLOSED", 0, successCount + 1)
          IN /\ cbState' = t.state
             /\ failureCount' = t.failureCount
             /\ successCount' = t.successCount
     ELSE /\ failureCount' = 0
          /\ successCount' = IF cbState = "HALF_OPEN" THEN successCount + 1
                             ELSE successCount
          /\ UNCHANGED cbState
  /\ consecutiveFailures' = 0
  /\ failuresSinceReset' = 0
  /\ lastOp' = "onSuccess"
  /\ UNCHANGED <<cbOptions, lastFailureTime, now>>
  /\ UNCHANGED exceptBreaker

OnFailure ==
  /\ failureCount < MaxFailures
  /\ consecutiveFailures < MaxFailures
  /\ lastFailureTime' = now
  /\ IF \/ cbState = "HALF_OPEN"
        \/ cbState = "CLOSED" /\ failureCount + 1 >= cbOptions.failureThreshold
     THEN LET t == transitionTo("OPEN", failureCount + 1, 0)
          IN /\ cbState' = t.state
             /\ failureCount' = t.failureCount
             /\ successCount' = t.successCount
     ELSE /\ failureCount' = failureCount + 1
          /\ successCount' = 0
          /\ UNCHANGED cbState
  /\ consecutiveFailures' = consecutiveFailures + 1
  /\ failuresSinceReset' = failuresSinceReset + 1
  /\ lastOp' = "onFailure"
  /\ UNCHANGED <<cbOptions, now>>
  /\ UNCHANGED exceptBreaker

\* reset()
Reset ==
  /\ IF cbState # "CLOSED"
     THEN LET t == transitionTo("CLOSED", 0, 0)
          IN /\ cbState' = t.state
             /\ failureCount' = t.failureCount
             /\ successCount' = t.successCount
     ELSE /\ failureCount' = 0
          /\ successCount' = 0
          /\ UNCHANGED cbState
  /\ consecutiveFailures' = countFailures("CLOSED", consecutiveFailures)
  /\ failuresSinceReset' = 0
  /\ lastOp' = "reset"
  /\ UNCHANGED <<cbOptions, lastFailureTime, now>>
  /\ UNCHANGED exceptBreaker

\* trip()
Trip ==
  /\ lastFailureTime' = now
  /\ IF cbState # "OPEN"
     THEN LET t == transitionTo("OPEN", failureCount, successCount)
          IN /\ cbState' = t.state
             /\ failureCount' = t.failureCount
             /\ successCount' = t.successCount
     ELSE UNCHANGED <<cbState, failureCount, successCount>>
  /\ lastOp' = "trip"
  /\ UNCHANGED <<cbOptions, now, consecutiveFailures, failuresSinceReset>>
  /\ UNCHANGED exceptBreaker

\* time passes
Tick ==
  /\ now < MaxTime
  /\ now' = now + 1
  /\ lastOp' = "tick"
  /\ UNCHANGED <<cbOptions, cbState, failureCount, successCount,
                 lastFailureTime, consecutiveFailures, failuresSinceReset>>
  /\ UNCHANGED exceptBreaker

\* the execute(fn) calls of the model
CallIds == {"c1", "c2"}

\* the value the isAllowed getter returns
allowedValue ==
  IF cbState = "CLOSED" THEN TRUE
  ELSE IF cbState = "OPEN"
       THEN now - lastFailureTime >= cbOptions.resetTimeout
       ELSE TRUE

\* what the operation op adds to the history of the circuit
History(op) ==
  /\ halfOpenSuccesses' =
       IF cbState' = "HALF_OPEN" /\ cbState # "HALF_OPEN" THEN 0
       ELSE IF op = "onFailure" THEN 0
       ELSE IF op = "onSuccess" /\ cbState = "HALF_OPEN"
            THEN halfOpenSuccesses + 1
            ELSE halfOpenSuccesses
  /\ lastFailureOrTrip' = IF op \in {"onFailure", "trip"} THEN now
                          ELSE lastFailureOrTrip

\* a caller reads breaker.isAllowed
ReadIsAllowed ==
  /\ IsAllowed
  /\ cbAllowed' = allowedValue
  /\ History("isAllowed")
  /\ UNCHANGED cbCalls

\* a caller records an outcome itself
RecordSuccess ==
  /\ OnSuccess
  /\ History("onSuccess")
  /\ UNCHANGED <<cbAllowed, cbCalls>>

RecordFailure ==
  /\ OnFailure
  /\ History("onFailure")
  /\ UNCHANGED <<cbAllowed, cbCalls>>

ManualReset ==
  /\ Reset
  /\ History("reset")
  /\ UNCHANGED <<cbAllowed, cbCalls>>

ManualTrip ==
  /\ Trip
  /\ History("trip")
  /\ UNCHANGED <<cbAllowed, cbCalls>>

ClockTick ==
  /\ Tick
  /\ UNCHANGED breakerCallVars

\* an execute(fn) that invokes fn before it reads isAllowed
ExecuteUnchecked(c) ==
  /\ cbCalls[c].pc = "idle"
  /\ IsAllowed
  /\ cbAllowed' = allowedValue
  /\ History("isAllowed")
  /\ cbCalls' = [cbCalls EXCEPT ![c].pc = IF allowedValue THEN "awaiting"
                                          ELSE "refused",
                                ![c].fnCalls = 1]

\* execute(fn) up to its await: the isAllowed test and the call of fn
Execute(c) ==
  /\ cbCalls[c].pc = "idle"
  /\ IsAllowed
  /\ cbAllowed' = allowedValue
  /\ History("isAllowed")
  /\ IF allowedValue
     THEN cbCalls' = [cbCalls EXCEPT ![c].pc = "awaiting", ![c].fnCalls = 1]
     ELSE cbCalls' = [cbCalls EXCEPT ![c].pc = "refused"]

\* execute(fn) after its await: fn resolved
ExecuteResolved(c) ==
  /\ cbCalls[c].pc = "awaiting"
  /\ OnSuccess
  /\ History("onSuccess")
  /\ cbCalls' = [cbCalls EXCEPT ![c].pc = "resolved",
                                ![c].recorded = Append(@, "onSuccess")]
  /\ UNCHANGED cbAllowed

\* execute(fn) after its await: fn rejected
ExecuteRejected(c) ==
  /\ cbCalls[c].pc = "awaiting"
  /\ OnFailure
  /\ History("onFailure")
  /\ cbCalls' = [cbCalls EXCEPT ![c].pc = "rejected",
                                ![c].recorded = Append(@, "onFailure")]
  /\ UNCHANGED cbAllowed

InitBreaker ==
  /\ RunIdle /\ PoolIdle /\ RecoveryIdle /\ RedactionIdle
  /\ AuxIdle
  /\ LimiterIdle /\ TimeoutIdle
  /\ cbOptions \in CircuitBreakerOptions
  /\ cbState = "CLOSED"
  /\ failureCount = 0
  /\ successCount = 0
  /\ lastFailureTime = 0
  /\ now = 0
  /\ consecutiveFailures = 0
  /\ failuresSinceReset = 0
  /\ cbAllowed = TRUE
  /\ cbCalls = [c \in CallIds |-> [pc |-> "idle", fnCalls |-> 0, recorded |-> <<>>]]
  /\ halfOpenSuccesses = 0
  /\ lastFailureOrTrip = 0
  /\ lastOp = "none"

NextBreaker ==
  \/ ReadIsAllowed
  \/ RecordSuccess
  \/ RecordFailure
  \/ ManualReset
  \/ ManualTrip
  \/ ClockTick
  \/ \E c \in CallIds : Execute(c)
  \/ \E c \in CallIds : ExecuteResolved(c)
  \/ \E c \in CallIds : ExecuteRejected(c)

SpecBreaker == InitBreaker /\ [][NextBreaker]_vars

----------------------------------------------------------------------------
(* Properties of the circuit breaker *)

\* C10 as stated - Circuit breaker opening: a CLOSED circuit moves to OPEN
\* exactly when failureThreshold failures have been recorded with no success
\* between them, and a success recorded in CLOSED zeroes the failure count.
OpensExactlyAtThreshold ==
  [][cbState = "CLOSED" =>
       /\ (cbState' = "OPEN") <=>
            (lastOp' = "onFailure"
             /\ consecutiveFailures' >= cbOptions.failureThreshold)
       /\ (lastOp' = "onSuccess" => failureCount' = 0 /\ cbState' = "CLOSED")
    ]_vars

\* C10 amended - a recorded outcome moves a CLOSED circuit to OPEN exactly
\* when it is the failure that brings the failures recorded since the last
\* success, the last reset() and the last closing to failureThreshold; the
\* only other way from CLOSED to OPEN is trip(); a success recorded in CLOSED
\* zeroes the failure count and leaves the circuit CLOSED.
CircuitBreakerOpening ==
  [][cbState = "CLOSED" =>
       /\ (cbState' = "OPEN") <=>
            \/ lastOp' = "trip"
            \/ /\ lastOp' = "onFailure"
               /\ failuresSinceReset' = cbOptions.failureThreshold
       /\ (lastOp' = "onSuccess" => failureCount' = 0 /\ cbState' = "CLOSED")
    ]_vars

\* with a threshold of 2, the circuit opened on the second failure in a row
CircuitBreakerOpeningWitness ==
  /\ cbOptions.failureThreshold = 2
  /\ cbState = "OPEN"
  /\ lastOp = "onFailure"
  /\ failuresSinceReset = 2
  /\ failureCount = 2

\* an OPEN circuit before its resetTimeout has elapsed
OpenTooEarly ==
  /\ cbState = "OPEN"
  /\ now - lastFailureOrTrip < cbOptions.resetTimeout

\* an OPEN circuit whose resetTimeout has elapsed
OpenLongEnough ==
  /\ cbState = "OPEN"
  /\ now - lastFailureOrTrip >= cbOptions.resetTimeout

\* C11 as stated - Circuit breaker half-opening: an OPEN circuit stays OPEN,
\* and isAllowed reads false, until resetTimeout has elapsed since the last
\* failure or trip(); the first read of isAllowed from then on moves it to
\* HALF_OPEN and returns true; nothing but a read of isAllowed moves OPEN to
\* HALF_OPEN.
StaysOpenUntilTimeout ==
  [][/\ OpenTooEarly => cbState' = "OPEN"
     /\ OpenTooEarly /\ lastOp' = "isAllowed" => cbAllowed' = FALSE
     /\ OpenLongEnough /\ lastOp' = "isAllowed" =>
          cbState' = "HALF_OPEN" /\ cbAllowed' = TRUE
     /\ cbState = "OPEN" /\ cbState' = "HALF_OPEN" => lastOp' = "isAllowed"
    ]_vars

\* C11 amended - the same, except that reset() closes an OPEN circuit at any
\* time: before resetTimeout has elapsed an OPEN circuit leaves OPEN only by
\* reset(), and then to CLOSED.
CircuitBreakerHalfOpening ==
  [][/\ OpenTooEarly /\ lastOp' # "reset" => cbState' = "OPEN"
     /\ OpenTooEarly /\ lastOp' = "reset" => cbState' = "CLOSED"
     /\ OpenTooEarly /\ lastOp' = "isAllowed" => cbAllowed' = FALSE
     /\ OpenLongEnough /\ lastOp' = "isAllowed" =>
          cbState' = "HALF_OPEN" /\ cbAllowed' = TRUE
     /\ cbState = "OPEN" /\ cbState' = "HALF_OPEN" => lastOp' = "isAllowed"
    ]_vars

\* a read of isAllowed has just half-opened a circuit that an earlier read,
\* before the timeout, had found OPEN
CircuitBreakerHalfOpeningWitness ==
  /\ cbState = "HALF_OPEN"
  /\ lastOp = "isAllowed"
  /\ cbAllowed = TRUE
  /\ now - lastFailureOrTrip >= cbOptions.resetTimeout
  /\ \E c \in CallIds : cbCalls[c].pc = "refused"

\* C12 as stated - Circuit breaker half-open outcomes: in HALF_OPEN a recorded
\* failure opens the circuit, and the circuit closes exactly when
\* successThreshold successes have been recorded since HALF_OPEN was entered
\* with no failure between them.
ClosesExactlyAtThreshold ==
  [][cbState = "HALF_OPEN" =>
       /\ lastOp' = "onFailure" => cbState' = "OPEN"
       /\ (cbState' = "CLOSED") <=>
            /\ lastOp' = "onSuccess"
            /\ halfOpenSuccesses' >= cbOptions.successThreshold
    ]_vars

\* C12 amended - in HALF_OPEN a recorded failure opens the circuit; a recorded
\* outcome closes it exactly when it is the success that brings the successes
\* recorded since HALF_OPEN was entered to successThreshold; the only other
\* way from HALF_OPEN to CLOSED is reset().
CircuitBreakerHalfOpenOutcomes ==
  [][cbState = "HALF_OPEN" =>
       /\ lastOp' = "onFailure" => cbState' = "OPEN"
       /\ (cbState' = "CLOSED") <=>
            \/ lastOp' = "reset"
            \/ /\ lastOp' = "onSuccess"
               /\ halfOpenSuccesses' = cbOptions.successThreshold
    ]_vars

\* with a success threshold of 2, the second success in HALF_OPEN closed the
\* circuit
CircuitBreakerHalfOpenOutcomesWitness ==
  /\ cbOptions.successThreshold = 2
  /\ cbState = "CLOSED"
  /\ lastOp = "onSuccess"
  /\ halfOpenSuccesses = 2

\* what each execute(fn) call has done by the time it is at pc
executeRecord(call) ==
  CASE call.pc = "idle"     -> call.fnCalls = 0 /\ call.recorded = <<>>
    [] call.pc = "refused"  -> call.fnCalls = 0 /\ call.recorded = <<>>
    [] call.pc = "awaiting" -> call.fnCalls = 1 /\ call.recorded = <<>>
    [] call.pc = "resolved" -> call.fnCalls = 1 /\ call.recorded = <<"onSuccess">>
    [] call.pc = "rejected" -> call.fnCalls = 1 /\ call.recorded = <<"onFailure">>

\* C13 - Circuit breaker execute: when isAllowed is false, execute(fn) is
\* refused without a call of fn and without a change of the state or of either
\* counter; when isAllowed is true, fn is called exactly once and exactly one
\* outcome is recorded, onSuccess if fn resolves and onFailure if it rejects.
CircuitBreakerExecute ==
  /\ [](\A c \in CallIds : executeRecord(cbCalls[c]))
  /\ [][\A c \in CallIds :
          cbCalls[c].pc = "idle" /\ cbCalls'[c].pc # "idle" =>
            /\ cbAllowed' = FALSE =>
                 /\ cbCalls'[c].pc = "refused"
                 /\ UNCHANGED <<cbState, failureCount, successCount>>
            /\ cbAllowed' = TRUE => cbCalls'[c].pc = "awaiting"
       ]_vars

\* one execute was refused by the OPEN circuit, another ran fn and recorded
\* its failure
CircuitBreakerExecuteWitness ==
  /\ \E c \in CallIds : cbCalls[c].pc = "refused"
  /\ \E c \in CallIds : cbCalls[c].pc = "rejected"

----------------------------------------------------------------------------
(* More properties of the scheduler *)

\* the steps id needs, directly or transitively
RECURSIVE ancestorsOf(_)
ancestorsOf(id) ==
  needsOf(id) \cup UNION {ancestorsOf(n) : n \in needsOf(id)}

\* what getRunnableSteps would return now, whatever its arguments
Returnable ==
  UNION {Range(getRunnableSteps(workflow, pendingSteps, completedSteps, rc, cap)) :
           rc \in 0..MaxCap, cap \in 1..MaxCap}

\* C15 as stated - Failure is terminal within the scheduler: once
\* markStepFailed(s) has been called, s is not pending, no call of
\* getRunnableSteps returns s, and none returns a step that needs s directly
\* or transitively.
FailureIsTerminal ==
  pc = "scheduling" =>
    \A s \in failedEvents :
      /\ s \notin Range(pendingSteps)
      /\ s \notin Returnable
      /\ \A d \in Range(wfIds(workflow)) :
           s \in ancestorsOf(d) => d \notin Returnable

\* every step restored as completed has all its needs restored as completed
RestoredClosed == \A c \in alreadyCompleted : needsOf(c) \subseteq alreadyCompleted

\* C15 amended - once markStepFailed(s) has been called for a running step s,
\* s is not pending, no call of getRunnableSteps returns s or a step that
\* needs s directly; none returns a step that needs s transitively when the
\* steps restored as completed include the needs of each of them.
FailureIsTerminalForDependents ==
  pc = "scheduling" =>
    \A s \in failedEvents :
      /\ s \notin Range(pendingSteps)
      /\ s \notin Returnable
      /\ \A d \in Range(wfIds(workflow)) :
           /\ s \in needsOf(d) => d \notin Returnable
           /\ RestoredClosed /\ s \in ancestorsOf(d) => d \notin Returnable

\* a step has failed, a step that needs it transitively is still pending,
\* nothing runs, and the latest getRunnableSteps returned nothing
FailureIsTerminalForDependentsWitness ==
  /\ pc = "scheduling"
  /\ RestoredClosed
  /\ runningSteps = {}
  /\ runnable = <<>>
  /\ \E s \in failedEvents :
       \E d \in Range(pendingSteps) : s \in ancestorsOf(d) \ needsOf(d)

\* C16 - Scheduler partition: with startStep called only on returned steps and
\* markStepComplete/markStepFailed only on running steps, every step id of the
\* workflow that has not been marked failed is in exactly one of completed,
\* pending, running.
SchedulerPartition ==
  pc = "scheduling" =>
    \A s \in Range(wfIds(workflow)) \ failedEvents :
      Cardinality({k \in {"completed", "pending", "running"} :
                     \/ k = "completed" /\ s \in completedSteps
                     \/ k = "pending" /\ s \in Range(pendingSteps)
                     \/ k = "running" /\ s \in runningSteps}) = 1

\* one step completed, one running, one pending
SchedulerPartitionWitness ==
  /\ pc = "scheduling"
  /\ completeEvents # {}
  /\ runningSteps # {}
  /\ pendingSteps # <<>>

----------------------------------------------------------------------------
(* More properties of the resource pools *)

queuedCallers(pool) == {pool.queue[i].caller : i \in DOMAIN pool.queue}

\* C17 - Pool cancellation: the abort of a queued acquire removes the waiter
\* from the queue and rejects it; queued drops by one, active is unchanged,
\* and no later release grants the aborted waiter a slot.
PoolCancellation ==
  [][\A c \in Callers :
       /\ (callers[c].state = "waiting" /\ callers'[c].state = "aborted") =>
            LET name == callers[c].pool
            IN /\ Len(pools'[name].queue) = Len(pools[name].queue) - 1
               /\ c \in queuedCallers(pools[name])
               /\ c \notin queuedCallers(pools'[name])
               /\ pools'[name].active = pools[name].active
       /\ callers[c].state = "aborted" =>
            /\ callers'[c].state = "aborted"
            /\ \A n \in DOMAIN pools' : c \notin queuedCallers(pools'[n])
    ]_vars

\* a waiter was aborted, and a later release handed the slot to a waiter that
\* had queued after it
PoolCancellationWitness ==
  \E a \in Callers, h \in Callers :
    /\ callers[a].state = "aborted"
    /\ callers[h].state = "holding"
    /\ callers[h].pool = callers[a].pool
    /\ callers[h].seq > callers[a].seq

\* every caller that acquired has released, every waiter was granted or aborted
allSettled == \A c \in Callers : callers[c].state \in {"idle", "released", "aborted"}

\* C18 - Pool balance: when every granted acquisition has been released once
\* and every queued waiter has been granted or aborted, each pool has
\* active = 0 and queued = 0.
PoolBalance ==
  allSettled =>
    \A n \in DOMAIN pools : pools[n].active = 0 /\ pools[n].queue = <<>>

\* all callers are done: one of them was aborted in the queue, another was
\* granted from the queue and released
PoolBalanceWitness ==
  /\ allSettled
  /\ \E c \in Callers : callers[c].state = "aborted"
  /\ \E c \in Callers : callers[c].state = "released" /\ callers[c].seq > 0

----------------------------------------------------------------------------
(* RateLimiter (utils/rate-limiter.ts): a token bucket with a FIFO queue of *)
(* waiters, modelled from the specification and from rate-limiter.test.ts   *)

MaxTokens == 2
MaxWaiters == 3

WaiterIds == 1..MaxWaiters

RateLimiterOptions == [maxTokens : 1..MaxTokens, refillRate : 1..MaxTokens]

\* the states in which an acquire() that had to wait has been settled
SettledStates == {"resolved", "aborted", "timedout", "stopped"}

\* the `waiting` getter
waiting == Len(rlQueue)

\* the waiters a refill resolves: the oldest ones, one per token
served(queue, tokens) == SubSeq(queue, 1, Min(Len(queue), tokens))

\* the waiter w leaves the queue and is settled as st
settle(ws, w, st) == [ws EXCEPT ![w].state = st, ![w].settled = @ + 1]

\* tryAcquire(): takes a token if there is one
TryAcquire ==
  /\ rlLastOp # "stop"
  /\ rlTokens' = IF rlTokens > 0 THEN rlTokens - 1 ELSE rlTokens
  /\ rlLastOp' = "tryAcquire"
  /\ UNCHANGED <<rlOptions, rlQueue, rlWaiters>>
  /\ UNCHANGED exceptLimiter

\* acquire(): takes a token at once, or becomes the youngest waiter
LimiterAcquire(w) ==
  /\ rlLastOp # "stop"
  /\ rlWaiters[w].state = "idle"
  /\ IF rlTokens > 0
     THEN /\ rlTokens' = rlTokens - 1
          /\ rlWaiters' = [rlWaiters EXCEPT ![w].state = "acquired"]
          /\ UNCHANGED rlQueue
     ELSE /\ rlQueue' = Append(rlQueue, w)
          /\ rlWaiters' = [rlWaiters EXCEPT ![w].state = "waiting"]
          /\ UNCHANGED rlTokens
  /\ rlLastOp' = "acquire"
  /\ UNCHANGED rlOptions
  /\ UNCHANGED exceptLimiter

\* a refill that serves the youngest waiters first
RefillLifo ==
  /\ rlLastOp # "stop"
  /\ LET tokens == Min(rlOptions.maxTokens, rlTokens + rlOptions.refillRate)
         n == Min(Len(rlQueue), tokens)
         winners == SubSeq(rlQueue, Len(rlQueue) - n + 1, Len(rlQueue))
     IN /\ rlTokens' = tokens - n
        /\ rlQueue' = SubSeq(rlQueue, 1, Len(rlQueue) - n)
        /\ rlWaiters' = [w \in WaiterIds |->
                           IF w \in Range(winners)
                           THEN [state |-> "resolved",
                                 settled |-> rlWaiters[w].settled + 1]
                           ELSE rlWaiters[w]]
  /\ rlLastOp' = "refill"
  /\ UNCHANGED rlOptions
  /\ UNCHANGED exceptLimiter

\* the refill timer: adds refillRate tokens up to maxTokens, then resolves
\* waiters, oldest first, while tokens last
Refill ==
  /\ rlLastOp # "stop"
  /\ LET tokens == Min(rlOptions.maxTokens, rlTokens + rlOptions.refillRate)
         winners == served(rlQueue, tokens)
     IN /\ rlTokens' = tokens - Len(winners)
        /\ rlQueue' = SubSeq(rlQueue, Len(winners) + 1, Len(rlQueue))
        /\ rlWaiters' = [w \in WaiterIds |->
                           IF w \in Range(winners)
                           THEN [state |-> "resolved",
                                 settled |-> rlWaiters[w].settled + 1]
                           ELSE rlWaiters[w]]
  /\ rlLastOp' = "refill"
  /\ UNCHANGED rlOptions
  /\ UNCHANGED exceptLimiter

\* the signal of a waiting acquire() aborts
LimiterAbort(w) ==
  /\ rlLastOp # "stop"
  /\ rlWaiters[w].state = "waiting"
  /\ rlQueue' = SeqFilterOut(rlQueue, w)
  /\ rlWaiters' = settle(rlWaiters, w, "aborted")
  /\ rlLastOp' = "abort"
  /\ UNCHANGED <<rlOptions, rlTokens>>
  /\ UNCHANGED exceptLimiter

\* the timeout of a waiting acquire() expires
LimiterTimeout(w) ==
  /\ rlLastOp # "stop"
  /\ rlWaiters[w].state = "waiting"
  /\ rlQueue' = SeqFilterOut(rlQueue, w)
  /\ rlWaiters' = settle(rlWaiters, w, "timedout")
  /\ rlLastOp' = "timeout"
  /\ UNCHANGED <<rlOptions, rlTokens>>
  /\ UNCHANGED exceptLimiter

\* stop(): rejects every waiter
LimiterStop ==
  /\ rlLastOp # "stop"
  /\ rlQueue' = <<>>
  /\ rlWaiters' = [w \in WaiterIds |->
                     IF w \in Range(rlQueue)
                     THEN [state |-> "stopped",
                           settled |-> rlWaiters[w].settled + 1]
                     ELSE rlWaiters[w]]
  /\ rlLastOp' = "stop"
  /\ UNCHANGED <<rlOptions, rlTokens>>
  /\ UNCHANGED exceptLimiter

InitLimiter ==
  /\ RunIdle /\ PoolIdle /\ RecoveryIdle /\ RedactionIdle /\ BreakerIdle
  /\ AuxIdle
  /\ TimeoutIdle
  /\ rlOptions \in RateLimiterOptions
  /\ rlTokens = rlOptions.maxTokens
  /\ rlQueue = <<>>
  /\ rlWaiters = [w \in WaiterIds |-> [state |-> "idle", settled |-> 0]]
  /\ rlLastOp = "none"

NextLimiter ==
  \/ TryAcquire
  \/ \E w \in WaiterIds : LimiterAcquire(w)
  \/ Refill
  \/ \E w \in WaiterIds : LimiterAbort(w)
  \/ \E w \in WaiterIds : LimiterTimeout(w)
  \/ LimiterStop

SpecLimiter == InitLimiter /\ [][NextLimiter]_vars

----------------------------------------------------------------------------
(* Properties of the rate limiter *)

unsettledWaiters == {w \in WaiterIds : rlWaiters[w].state = "waiting"}

\* C19 - Rate limiter waiters: an acquire() that finds no token waits and is
\* settled exactly once, resolved by a refill in FIFO order or rejected by its
\* abort, its timeout or stop(); `waiting` equals the number of unsettled
\* waiters, so it is 0 after the abort of the only waiter and after stop().
RateLimiterWaiters ==
  /\ [](/\ waiting = Cardinality(unsettledWaiters)
        /\ Range(rlQueue) = unsettledWaiters
        /\ rlLastOp = "stop" => waiting = 0
        /\ \A w \in WaiterIds :
             /\ rlWaiters[w].state \in SettledStates => rlWaiters[w].settled = 1
             /\ rlWaiters[w].state \notin SettledStates => rlWaiters[w].settled = 0)
  /\ [][\A w \in WaiterIds :
          /\ (rlWaiters[w].state = "idle" /\ rlWaiters'[w].state # "idle") =>
               IF rlTokens > 0 THEN rlWaiters'[w].state = "acquired"
               ELSE rlWaiters'[w].state = "waiting"
          /\ rlWaiters[w].state \in SettledStates => rlWaiters'[w] = rlWaiters[w]
          /\ (rlWaiters[w].state = "waiting" /\ rlWaiters'[w].state = "resolved") =>
               /\ rlLastOp' = "refill"
               /\ \A i \in DOMAIN rlQueue :
                    (\E j \in DOMAIN rlQueue : i < j /\ rlQueue[j] = w) =>
                      rlWaiters'[rlQueue[i]].state = "resolved"
       ]_vars

\* of three acquires that waited, one was aborted, a refill has just resolved
\* another, and the third is the only waiter left
RateLimiterWaitersWitness ==
  /\ rlLastOp = "refill"
  /\ waiting = 1
  /\ \E a \in WaiterIds, r \in WaiterIds :
       /\ rlWaiters[a].state = "aborted"
       /\ rlWaiters[r].state = "resolved"

----------------------------------------------------------------------------
(* withTimeout (runner/timeout.ts). The calls of the model share one        *)
(* AbortController; the wrapped operations may listen to its signal.        *)

TimeoutCalls == {"t1", "t2"}

\* what the wrapped operation does in its listener of the abort event:
\* nothing, reject its promise, resolve its promise, or settle it in a later
\* task
AbortReactions == {"ignores", "rejects", "resolves", "later"}

\* the outcome of Promise.race when the wrapped promise wins
outcomeOf(promise) == IF promise = "fulfilled" THEN "value" ELSE "error"

\* controller.abort(): the abort listeners run before abort() returns
dispatchAbort(calls) ==
  [c \in DOMAIN calls |->
     IF calls[c].promise = "pending" /\ calls[c].onAbort = "rejects"
     THEN [calls[c] EXCEPT !.promise = "rejected"]
     ELSE IF calls[c].promise = "pending" /\ calls[c].onAbort = "resolves"
          THEN [calls[c] EXCEPT !.promise = "fulfilled"]
          ELSE calls[c]]

\* the reactions queued by the promises that have just settled run: the race
\* of a call whose wrapped promise settled is won by it, and its finally
\* block clears the timer
drainReactions(before, after) ==
  [c \in DOMAIN after |->
     IF before[c].promise = "pending" /\ after[c].promise # "pending"
        /\ after[c].result = "pending"
     THEN [after[c] EXCEPT !.result = outcomeOf(after[c].promise),
                           !.timer = "cleared"]
     ELSE after[c]]

\* the wrapped promise of call c settles in a task of its own
PromiseSettles(c, outcome) ==
  /\ toCalls[c].promise = "pending"
  /\ toCalls' = drainReactions(toCalls, [toCalls EXCEPT ![c].promise = outcome])
  /\ UNCHANGED toAborted
  /\ UNCHANGED exceptTimeout

\* the setTimeout callback of call c: abort() of the attached controller
\* unless it is aborted already, then reject(timeoutError); the reactions run
\* in the order in which the promises were settled
TimerFires(c) ==
  /\ toCalls[c].timer = "armed"
  /\ LET doAbort == toCalls[c].attached /\ ~toAborted
         aborted == IF doAbort THEN dispatchAbort(toCalls) ELSE toCalls
         counted == [aborted EXCEPT ![c].aborts = IF doAbort THEN @ + 1 ELSE @,
                                    ![c].timer = "fired"]
         raced == IF counted[c].promise = "pending"
                  THEN [counted EXCEPT ![c].result = "TimeoutError"]
                  ELSE [counted EXCEPT ![c].result = outcomeOf(counted[c].promise)]
     IN /\ toCalls' = drainReactions(toCalls, raced)
        /\ toAborted' = (toAborted \/ doAbort)
  /\ UNCHANGED exceptTimeout

\* somebody else aborts the controller
ExternalAbort ==
  /\ ~toAborted
  /\ toAborted' = TRUE
  /\ toCalls' = drainReactions(toCalls, dispatchAbort(toCalls))
  /\ UNCHANGED exceptTimeout

InitTimeout ==
  /\ RunIdle /\ PoolIdle /\ RecoveryIdle /\ RedactionIdle /\ BreakerIdle
  /\ AuxIdle
  /\ LimiterIdle
  /\ toCalls \in [TimeoutCalls ->
                    [attached : BOOLEAN, onAbort : AbortReactions,
                     promise : {"pending"}, timer : {"armed"},
                     result : {"pending"}, aborts : {0}]]
  /\ toAborted = FALSE

NextTimeout ==
  \/ \E c \in TimeoutCalls, outcome \in {"fulfilled", "rejected"} :
       PromiseSettles(c, outcome)
  \/ \E c \in TimeoutCalls : TimerFires(c)
  \/ ExternalAbort

SpecTimeout == InitTimeout /\ [][NextTimeout]_vars

----------------------------------------------------------------------------
(* Properties of withTimeout *)

\* C20 - Timeout wrapper: withTimeout with an attached controller calls
\* abort() only when its timer fires before the promise settles; when the
\* timer fires the controller is aborted and the result is a rejection with
\* TimeoutError; when the promise settles first the result is the promise's
\* own outcome and withTimeout calls no abort().
TimeoutWrapper ==
  \A c \in TimeoutCalls :
    toCalls[c].attached =>
      /\ toCalls[c].aborts >= 1 => toCalls[c].timer = "fired"
      /\ toCalls[c].timer = "fired" =>
           toAborted /\ toCalls[c].result = "TimeoutError"
      /\ toCalls[c].timer = "cleared" =>
           /\ toCalls[c].result = outcomeOf(toCalls[c].promise)
           /\ toCalls[c].aborts = 0

\* what withTimeout does guarantee: the same, for a wrapped promise that does
\* not settle inside the listeners of the abort event
TimeoutWrapperDeferred ==
  \A c \in TimeoutCalls :
    (toCalls[c].attached /\ toCalls[c].onAbort \in {"ignores", "later"}) =>
      /\ toCalls[c].aborts >= 1 => toCalls[c].timer = "fired"
      /\ toCalls[c].timer = "fired" =>
           toAborted /\ toCalls[c].result = "TimeoutError"
      /\ toCalls[c].timer = "cleared" =>
           /\ toCalls[c].result = outcomeOf(toCalls[c].promise)
           /\ toCalls[c].aborts = 0

\* the timer of a call fired and aborted the controller, and the call ended
\* with the rejection of its wrapped promise
TimedOutWithoutTimeoutError ==
  \E c \in TimeoutCalls :
    /\ toCalls[c].timer = "fired"
    /\ toCalls[c].aborts = 1
    /\ toCalls[c].result = "error"

----------------------------------------------------------------------------
(* MCPClient (runner/mcp-client.ts): the environment of a local server      *)
(* process, and the correlation of requests and responses by id.            *)

MaxRequests == 2

\* names of environment variables, as the words between their underscores
EnvNames == {<<"PATH">>, <<"TEST", "API", "KEY", "LEAK">>, <<"EXPLICIT", "SECRET">>}

\* the environments of the model: each name is absent or bound to the value
\* of its origin
Envs(value) == UNION {[names -> {value}] : names \in SUBSET EnvNames}

\* the object spread { ...a, ...b }
spread(a, b) ==
  [n \in (DOMAIN a) \cup (DOMAIN b) |-> IF n \in DOMAIN b THEN b[n] ELSE a[n]]

\* the env option StdConfigTransport hands to spawn
spawnEnv(parentEnv, env) == spread(parentEnv, env)

\* MCPClient.createLocal(command, args, env)
CreateLocal(env) ==
  /\ mcpPhase = "new"
  /\ mcpPhase' = "ready"
  /\ mcpCallerEnv' = env
  /\ mcpChildEnv' = spawnEnv(mcpParentEnv, env)
  /\ UNCHANGED <<mcpParentEnv, messageId, pendingRequests, mcpRequests, mcpSent>>
  /\ UNCHANGED exceptMcp

\* resolve or reject of the promise of a request: the first call settles it
settleRequest(requests, id, promise, by) ==
  IF requests[id + 1].promise = "pending"
  THEN [requests EXCEPT ![id + 1].promise = promise, ![id + 1].by = by]
  ELSE requests

\* MCPClient.request up to the return of its promise: the id is taken from
\* the counter, the resolver is stored under it, the message is handed to the
\* transport and the timer is armed
Request ==
  /\ mcpPhase = "ready"
  /\ messageId < MaxRequests
  /\ LET id == messageId
     IN /\ messageId' = messageId + 1
        /\ pendingRequests' = pendingRequests \cup {id}
        /\ mcpRequests' = Append(mcpRequests,
                                 [id |-> id, promise |-> "pending", by |-> "none",
                                  send |-> "inflight", timer |-> "armed"])
        /\ mcpSent' = Append(mcpSent, id)
  /\ UNCHANGED <<mcpPhase, mcpParentEnv, mcpCallerEnv, mcpChildEnv>>
  /\ UNCHANGED exceptMcp

\* the promise of transport.send settles: on rejection the catch handler
\* deletes the id and rejects the request
SendSettles(id, ok) ==
  /\ id + 1 \in DOMAIN mcpRequests
  /\ mcpRequests[id + 1].send = "inflight"
  /\ IF ok
     THEN /\ mcpRequests' = [mcpRequests EXCEPT ![id + 1].send = "done"]
          /\ UNCHANGED pendingRequests
     ELSE /\ pendingRequests' = pendingRequests \ {id}
          /\ mcpRequests' = settleRequest([mcpRequests EXCEPT ![id + 1].send = "failed"],
                                          id, "rejected", "send")
  /\ UNCHANGED <<mcpPhase, mcpParentEnv, mcpCallerEnv, mcpChildEnv, messageId, mcpSent>>
  /\ UNCHANGED exceptMcp

\* the onMessage handler of the constructor; id = -1 stands for a message
\* without id
OnMessageKeepPending(id) ==
  /\ mcpPhase = "ready"
  /\ IF id # -1 /\ id \in pendingRequests
     THEN /\ UNCHANGED pendingRequests
          /\ mcpRequests' = [mcpRequests EXCEPT ![id + 1].promise = "resolved",
                                                ![id + 1].by = "response"]
     ELSE UNCHANGED <<pendingRequests, mcpRequests>>
  /\ UNCHANGED <<mcpPhase, mcpParentEnv, mcpCallerEnv, mcpChildEnv, messageId, mcpSent>>
  /\ UNCHANGED exceptMcp

OnMessage(id) ==
  /\ mcpPhase = "ready"
  /\ IF id # -1 /\ id \in pendingRequests
     THEN /\ pendingRequests' = pendingRequests \ {id}
          /\ mcpRequests' = settleRequest(mcpRequests, id, "resolved", "response")
     ELSE UNCHANGED <<pendingRequests, mcpRequests>>
  /\ UNCHANGED <<mcpPhase, mcpParentEnv, mcpCallerEnv, mcpChildEnv, messageId, mcpSent>>
  /\ UNCHANGED exceptMcp

\* the setTimeout callback of request(), this.timeout after the call
RequestTimeout(id) ==
  /\ id + 1 \in DOMAIN mcpRequests
  /\ mcpRequests[id + 1].timer = "armed"
  /\ IF id \in pendingRequests
     THEN /\ pendingRequests' = pendingRequests \ {id}
          /\ mcpRequests' = settleRequest([mcpRequests EXCEPT ![id + 1].timer = "fired"],
                                          id, "rejected", "timeout")
     ELSE /\ mcpRequests' = [mcpRequests EXCEPT ![id + 1].timer = "fired"]
          /\ UNCHANGED pendingRequests
  /\ UNCHANGED <<mcpPhase, mcpParentEnv, mcpCallerEnv, mcpChildEnv, messageId, mcpSent>>
  /\ UNCHANGED exceptMcp

InitMcp ==
  /\ CoreIdle /\ LlmIdle /\ ForeachIdle /\ StoreIdle /\ RedactIdle
  /\ OlIdle /\ MgrIdle
  /\ mcpPhase = "new"
  /\ mcpParentEnv \in Envs("inherited")
  /\ mcpCallerEnv = <<>>
  /\ mcpChildEnv = <<>>
  /\ messageId = 0
  /\ pendingRequests = {}
  /\ mcpRequests = <<>>
  /\ mcpSent = <<>>

NextMcp ==
  \/ \E env \in Envs("explicit") : CreateLocal(env)
  \/ Request
  \/ \E id \in 0..(MaxRequests - 1), ok \in BOOLEAN : SendSettles(id, ok)
  \/ \E id \in -1..MaxRequests : OnMessage(id)
  \/ \E id \in 0..(MaxRequests - 1) : RequestTimeout(id)

SpecMcp == InitMcp /\ [][NextMcp]_vars

----------------------------------------------------------------------------
(* Properties of MCPClient *)

\* the name matches API_KEY, TOKEN, SECRET, PASSWORD, CREDENTIAL or AUTH
isSensitiveName(name) ==
  \/ \E i \in DOMAIN name :
       name[i] \in {"TOKEN", "SECRET", "PASSWORD", "CREDENTIAL", "AUTH"}
  \/ \E i \in DOMAIN name :
       i + 1 \in DOMAIN name /\ name[i] = "API" /\ name[i + 1] = "KEY"

\* C21 - MCP child environment: the environment given to a local MCP child
\* process holds no variable inherited from the parent process whose name
\* matches API_KEY, TOKEN, SECRET, PASSWORD, CREDENTIAL or AUTH, unless the
\* caller's env argument supplies that variable.
McpChildEnvironment ==
  mcpPhase = "ready" =>
    \A name \in DOMAIN mcpChildEnv :
      (isSensitiveName(name) /\ name \in DOMAIN mcpParentEnv)
        => name \in DOMAIN mcpCallerEnv

\* a child process was spawned with a sensitive variable of the parent that
\* the caller did not pass
McpChildEnvironmentLeak ==
  /\ mcpPhase = "ready"
  /\ \E name \in DOMAIN mcpChildEnv :
       /\ isSensitiveName(name)
       /\ name \notin DOMAIN mcpCallerEnv
       /\ mcpChildEnv[name] = "inherited"

\* what the transport does guarantee: the variables of the caller's env
\* argument reach the child with the caller's values, the other variables of
\* the parent are inherited
McpChildEnvironmentSpread ==
  mcpPhase = "ready" =>
    /\ DOMAIN mcpChildEnv = (DOMAIN mcpParentEnv) \cup (DOMAIN mcpCallerEnv)
    /\ \A name \in DOMAIN mcpCallerEnv : mcpChildEnv[name] = "explicit"

\* the promise of request id has settled
settledRequest(id) == mcpRequests[id + 1].promise # "pending"

\* C22 - MCP request correlation: each request of one client is sent with an
\* id strictly greater than every id the client used before; a request
\* settles once, by the response with its own id, by a send failure or by its
\* timeout, and has settled when its timer has fired; once settled its id is
\* not pending and nothing, a later response with that id included, changes
\* its outcome.
McpRequestCorrelation ==
  /\ [](\A i, j \in DOMAIN mcpSent : i < j => mcpSent[i] < mcpSent[j])
  /\ [](\A k \in DOMAIN mcpRequests :
          LET r == mcpRequests[k] IN
          /\ r.id = k - 1 /\ r.id < messageId
          /\ (r.promise = "pending") = (r.id \in pendingRequests)
          /\ (r.promise = "pending") = (r.by = "none")
          /\ r.promise = "resolved" => r.by = "response"
          /\ r.promise = "rejected" => r.by \in {"send", "timeout"}
          /\ r.by = "send" => r.send = "failed"
          /\ r.by = "timeout" => r.timer = "fired"
          /\ r.timer = "fired" => r.promise # "pending")
  /\ [][\A k \in DOMAIN mcpRequests :
          mcpRequests[k].promise # "pending" =>
            /\ mcpRequests'[k].promise = mcpRequests[k].promise
            /\ mcpRequests'[k].by = mcpRequests[k].by
            /\ mcpRequests[k].id \notin pendingRequests']_vars

\* the response of the youngest request has settled it while the oldest
\* request is still pending
McpRequestCorrelationWitness ==
  /\ Len(mcpRequests) = MaxRequests
  /\ mcpRequests[1].promise = "pending"
  /\ mcpRequests[MaxRequests].promise = "resolved"

\* a request settled by its timeout and one by a send failure
McpRequestFailuresWitness ==
  /\ Len(mcpRequests) >= 2
  /\ mcpRequests[1].by = "timeout"
  /\ mcpRequests[2].by = "send"

----------------------------------------------------------------------------
(* executeLlmStep (runner/executors/llm-executor.ts). The language model is *)
(* a script of turns that it answers with, one per streamText call.         *)

MaxScript == 2

MaxIterations == 2

MaxResumes == 1

DEFAULT_MAX_ITERATIONS == 10

MAX_AGENT_HANDOFFS == 10

\* a turn of the model: the tool calls of its stream, and whether streamText
\* throws or the stream carries an error
Turns ==
  {[calls |-> <<>>, fault |-> "none"],
   [calls |-> <<"tool">>, fault |-> "none"],
   [calls |-> <<"bad">>, fault |-> "none"],
   [calls |-> <<"ask">>, fault |-> "none"],
   [calls |-> <<"ask", "tool">>, fault |-> "none"],
   [calls |-> <<"transfer">>, fault |-> "none"],
   [calls |-> <<"transfer_c">>, fault |-> "none"],
   [calls |-> <<"transfer_m">>, fault |-> "none"],
   [calls |-> <<"transfer_c", "transfer">>, fault |-> "none"],
   [calls |-> <<"bad", "ask">>, fault |-> "none"],
   [calls |-> <<"ask">>, fault |-> "stream"],
   [calls |-> <<>>, fault |-> "throws"]}

Scripts == UNION {[1..n -> Turns] : n \in 1..MaxScript}

\* maxIterations = 0 and maxMessageHistory = 0 stand for an unset field
LlmSteps ==
  [maxIterations : 0..MaxIterations,
   allowClarification : BOOLEAN,
   maxMessageHistory : {0, 2},
   allowedHandoffs : {{}, {"b", "m"}}]

message(role, content, calls, callId, name) ==
  [role |-> role, content |-> content, tool_calls |-> calls,
   tool_call_id |-> callId, name |-> name]

\* const maxIterations = step.maxIterations || 10
maxIterationsOf(step) ==
  IF step.maxIterations # 0 THEN step.maxIterations ELSE DEFAULT_MAX_ITERATIONS

\* the condition of the turn loop
iterationsLeftInclusive(n, step) == n <= maxIterationsOf(step)

iterationsLeft(n, step) == n < maxIterationsOf(step)

\* the messages of a turn: the last maxMessageHistory ones when that is set
messagesForTurn(messages, step) ==
  IF step.maxMessageHistory # 0 /\ Len(messages) > step.maxMessageHistory
  THEN SubSeq(messages, Len(messages) - step.maxMessageHistory + 1, Len(messages))
  ELSE messages

toolCallPart(tc) ==
  [type |-> "tool-call", toolCallId |-> tc.id, toolName |-> tc.name]

mapToCoreMessage(m) ==
  IF m.role = "user" THEN [role |-> "user", content |-> m.content]
  ELSE IF m.role = "assistant"
  THEN [role |-> "assistant",
        content |->
          LET text == IF m.content # "" THEN <<[type |-> "text", text |-> m.content]>>
                      ELSE <<>>
              parts == text \o [i \in DOMAIN m.tool_calls |-> toolCallPart(m.tool_calls[i])]
          IN IF parts = <<>> THEN <<[type |-> "text", text |-> ""]>> ELSE parts]
  ELSE IF m.role = "tool"
  THEN [role |-> "tool",
        content |-> <<[type |-> "tool-result", toolCallId |-> m.tool_call_id,
                       toolName |-> m.name, result |-> m.content]>>]
  ELSE [role |-> "system", content |-> m.content]

mapToCoreMessages(messages) ==
  [i \in DOMAIN messages |-> mapToCoreMessage(messages[i])]

\* resumedMsgs.filter((m) => m.role !== 'system')
RECURSIVE withoutSystem(_)
withoutSystem(messages) ==
  IF messages = <<>> THEN <<>>
  ELSE IF Head(messages).role = "system" THEN withoutSystem(Tail(messages))
       ELSE <<Head(messages)>> \o withoutSystem(Tail(messages))

\* the message list at the entry of executeLlmStep: the prompt, or the
\* messages of the stored output of the step
entryMessages(stored) ==
  IF "messages" \in DOMAIN stored
  THEN withoutSystem(stored.messages)
  ELSE <<message("user", "prompt", <<>>, -1, "")>>

\* the ask tool: a human step on a terminal, else a request to suspend
askToolNeverSuspends(tty) ==
  IF tty THEN [content |-> "human answer", suspend |-> FALSE, transfer |-> FALSE]
  ELSE [content |-> "no terminal", suspend |-> FALSE, transfer |-> FALSE]

askTool(tty) ==
  IF tty THEN [content |-> "human answer", suspend |-> FALSE, transfer |-> FALSE]
  ELSE [content |-> "Suspended for user input", suspend |-> TRUE, transfer |-> FALSE]

\* the agent of the step is "a"; the calls of transfer_to_agent of the model
\* name agent "b", agent "c", or agent "m", which has no agent file
TransferCalls == {"transfer", "transfer_c", "transfer_m"}

agent_name(call) ==
  CASE call = "transfer" -> "b"
    [] call = "transfer_c" -> "c"
    [] call = "transfer_m" -> "m"

\* parseAgent(resolveAgentPath(name)) returns an agent
agentResolves(name) == name # "m"

\* step.allowedHandoffs?.includes(args.agent_name)
includesAlways(allowedHandoffs, name) == TRUE

includes(allowedHandoffs, name) == name \in allowedHandoffs

\* the tool is in aiTools
registered(name, step) ==
  /\ name = "ask" => step.allowClarification
  /\ name \in TransferCalls => step.allowedHandoffs # {}

\* the outcome of one tool call of a turn: the content of its tool message,
\* and what the call has set in the ToolManager
executeTool(name, step, tty) ==
  IF ~registered(name, step)
  THEN [content |-> "error: not found", suspend |-> FALSE, transfer |-> FALSE, ok |-> FALSE]
  ELSE IF name = "bad"
  THEN [content |-> "error: thrown", suspend |-> FALSE, transfer |-> FALSE, ok |-> FALSE]
  ELSE IF name = "ask"
  THEN [ok |-> TRUE] @@ askTool(tty)
  ELSE IF name \in TransferCalls
  THEN IF ~includes(step.allowedHandoffs, agent_name(name))
       THEN [content |-> "error: not allowed", suspend |-> FALSE, transfer |-> FALSE,
             ok |-> TRUE]
       ELSE IF ~agentResolves(agent_name(name))
       THEN [content |-> "error: resolving agent", suspend |-> FALSE,
             transfer |-> FALSE, ok |-> TRUE]
       ELSE [content |-> "Transferred", suspend |-> FALSE, transfer |-> TRUE, ok |-> TRUE]
  ELSE [content |-> "result", suspend |-> FALSE, transfer |-> FALSE, ok |-> TRUE]

\* the id the model gives to the i-th tool call of its n-th turn
toolCallIdOf(n, i) == n * 10 + i

\* the tool loop without a tool message for a tool that is not found
RECURSIVE runToolCallsFoundOnly(_, _, _, _, _, _)
runToolCallsFoundOnly(calls, i, n, step, tty, acc) ==
  IF i > Len(calls) THEN acc
  ELSE LET out == executeTool(calls[i], step, tty)
           requiresSuspend == acc.requiresSuspend \/ out.suspend
           next == [messages |->
                      IF registered(calls[i], step)
                      THEN Append(acc.messages,
                                  message("tool", out.content, <<>>,
                                          toolCallIdOf(n, i), calls[i]))
                      ELSE acc.messages,
                    requiresSuspend |-> requiresSuspend,
                    pendingTransfer |-> acc.pendingTransfer \/ out.transfer,
                    transferTo |-> IF out.transfer THEN agent_name(calls[i])
                                   ELSE acc.transferTo,
                    turnRequiresSuspend |->
                      acc.turnRequiresSuspend \/ (out.ok /\ requiresSuspend)]
       IN runToolCallsFoundOnly(calls, i + 1, n, step, tty, next)

\* the loop over the tool calls of a turn, from call i on; acc holds the tool
\* messages pushed, the flags of the ToolManager and turnRequiresSuspend
RECURSIVE runToolCalls(_, _, _, _, _, _)
runToolCalls(calls, i, n, step, tty, acc) ==
  IF i > Len(calls) THEN acc
  ELSE LET out == executeTool(calls[i], step, tty)
           requiresSuspend == acc.requiresSuspend \/ out.suspend
           next == [messages |-> Append(acc.messages,
                                        message("tool", out.content, <<>>,
                                                toolCallIdOf(n, i), calls[i])),
                    requiresSuspend |-> requiresSuspend,
                    pendingTransfer |-> acc.pendingTransfer \/ out.transfer,
                    transferTo |-> IF out.transfer THEN agent_name(calls[i])
                                   ELSE acc.transferTo,
                    turnRequiresSuspend |->
                      acc.turnRequiresSuspend \/ (out.ok /\ requiresSuspend)]
       IN runToolCalls(calls, i + 1, n, step, tty, next)

noResult == [status |-> "none", output |-> <<>>]

stepResult(status, messages, question, text) ==
  [status |-> status,
   output |-> [messages |-> messages, question |-> question, text |-> text]]

\* one turn of the loops of executeLlmStep, from the loop condition that
\* admits it to the next loop condition or the return
Turn ==
  /\ llmPc = "running"
  /\ LET turn == llmScript[(llmModelCalls % Len(llmScript)) + 1]
         n == llmModelCalls + 1
         it == iterations + 1
         assistant ==
           message("assistant", IF turn.calls = <<>> THEN "text" ELSE "",
                   [i \in DOMAIN turn.calls |->
                      [id |-> toolCallIdOf(n, i), name |-> turn.calls[i]]],
                   -1, "")
         withAssistant == Append(currentMessages, assistant)
         ran == runToolCalls(turn.calls, 1, n, llmStep, llmTTY,
                             [messages |-> <<>>, requiresSuspend |-> FALSE,
                              pendingTransfer |-> FALSE, transferTo |-> "",
                              turnRequiresSuspend |-> FALSE])
         withTools == withAssistant \o ran.messages
         return(result) == /\ llmPc' = "returned"
                           /\ llmResult' = result
                           /\ iterations' = it
                           /\ UNCHANGED <<handoffCount, llmActivations, activeAgent>>
     IN /\ llmModelCalls' = n
        /\ llmEntryCalls' = llmEntryCalls + 1
        /\ llmSent' = mapToCoreMessages(messagesForTurn(currentMessages, llmStep))
        /\ CASE turn.fault = "throws" ->
                  /\ currentMessages' = currentMessages
                  /\ return(stepResult("success", <<>>, "", "Error"))
             [] turn.fault = "stream" ->
                  /\ currentMessages' = withAssistant
                  /\ return(stepResult("failed", <<>>, "", ""))
             [] turn.fault = "none" /\ turn.calls = <<>> ->
                  /\ currentMessages' = withAssistant
                  /\ return(stepResult("success", <<>>, "", "text"))
             [] turn.fault = "none" /\ turn.calls # <<>> /\ ran.turnRequiresSuspend ->
                  /\ currentMessages' = withTools
                  /\ return(stepResult("suspended", withTools, "question", ""))
             [] turn.fault = "none" /\ turn.calls # <<>> /\ ~ran.turnRequiresSuspend
                  /\ ran.pendingTransfer ->
                  /\ currentMessages' = withTools
                  /\ handoffCount' = handoffCount + 1
                  /\ activeAgent' = ran.transferTo
                  /\ IF handoffCount + 1 > MAX_AGENT_HANDOFFS
                     THEN /\ llmPc' = "returned"
                          /\ llmResult' = stepResult("failed", <<>>, "", "")
                          /\ iterations' = it
                          /\ UNCHANGED llmActivations
                     ELSE /\ iterations' = 0
                          /\ llmActivations' = llmActivations + 1
                          /\ UNCHANGED <<llmPc, llmResult>>
             [] OTHER ->
                  /\ currentMessages' = withTools
                  /\ IF iterationsLeft(it, llmStep)
                     THEN /\ iterations' = it
                          /\ UNCHANGED <<llmPc, llmResult, handoffCount, llmActivations,
                                         activeAgent>>
                     ELSE return(stepResult("success", <<>>, "", ""))
  /\ UNCHANGED <<llmStep, llmTTY, llmScript, llmStored, llmAnswer, llmResumes>>
  /\ UNCHANGED exceptLlm

\* the runner has stored the output of the suspended step and the user has
\* answered: executeLlmStep is entered again for the step
Resume(answer) ==
  /\ llmPc = "returned"
  /\ llmResult.status = "suspended"
  /\ llmResumes < MaxResumes
  /\ llmResumes' = llmResumes + 1
  /\ llmStored' = llmResult.output
  /\ llmAnswer' = answer
  /\ currentMessages' = entryMessages(llmResult.output)
  /\ iterations' = 0
  /\ handoffCount' = 0
  /\ llmActivations' = 1
  /\ activeAgent' = "a"
  /\ llmEntryCalls' = 0
  /\ llmPc' = "running"
  /\ llmResult' = noResult
  /\ UNCHANGED <<llmStep, llmTTY, llmScript, llmModelCalls, llmSent>>
  /\ UNCHANGED exceptLlm

InitLlm ==
  /\ CoreIdle /\ McpIdle /\ ForeachIdle /\ StoreIdle /\ RedactIdle
  /\ OlIdle /\ MgrIdle
  /\ llmStep \in LlmSteps
  /\ llmTTY \in BOOLEAN
  /\ llmScript \in Scripts
  /\ llmPc = "running"
  /\ currentMessages = entryMessages(<<>>)
  /\ iterations = 0
  /\ handoffCount = 0
  /\ llmActivations = 1
  /\ activeAgent = "a"
  /\ llmModelCalls = 0
  /\ llmEntryCalls = 0
  /\ llmSent = <<>>
  /\ llmResult = noResult
  /\ llmStored = <<>>
  /\ llmAnswer = ""
  /\ llmResumes = 0

NextLlm ==
  \/ Turn
  \/ Resume("My name is Keystone")

SpecLlm == InitLlm /\ [][NextLlm]_vars

\* every model call and every tool call returns
SpecLlmFair == SpecLlm /\ WF_vars(Turn)

----------------------------------------------------------------------------
(* Properties of executeLlmStep *)

\* the turn the model answers the next streamText call with
nextTurn == llmScript[(llmModelCalls % Len(llmScript)) + 1]

\* the model calls the ask tool in the next turn
asksNext ==
  /\ llmPc = "running"
  /\ llmStep.allowClarification
  /\ \E i \in DOMAIN nextTurn.calls : nextTurn.calls[i] = "ask"

isPrefix(s, t) == Len(s) <= Len(t) /\ SubSeq(t, 1, Len(s)) = s

\* the step returns suspended with the question and the messages so far
suspendsNow ==
  /\ llmPc' = "returned"
  /\ llmResult'.status = "suspended"
  /\ llmResult'.output.question = "question"
  /\ llmResult'.output.messages = currentMessages'
  /\ isPrefix(currentMessages, currentMessages')
  /\ \E i \in DOMAIN currentMessages' :
       /\ i > Len(currentMessages)
       /\ currentMessages'[i].role = "tool"
       /\ currentMessages'[i].name = "ask"

\* no model call is made after executeLlmStep has returned, until it is
\* entered again
noCallAfterReturn ==
  (llmPc = "returned" /\ llmResumes' = llmResumes) => llmModelCalls' = llmModelCalls

\* C23 (as stated) - LLM clarification suspends: when stdin is not a TTY and
\* the model calls the ask tool in a turn, executeLlmStep stops calling the
\* model and returns status suspended, with an output that holds the question
\* and the message list accumulated so far.
LlmClarificationSuspendsAlways ==
  /\ [][(asksNext /\ ~llmTTY) => suspendsNow]_vars
  /\ [][noCallAfterReturn]_vars

\* C23 - LLM clarification suspends: when stdin is not a TTY and the model
\* calls the ask tool in a turn whose stream ends without an error,
\* executeLlmStep stops calling the model and returns status suspended, with
\* an output that holds the question and the message list accumulated so far.
LlmClarificationSuspends ==
  /\ [][(asksNext /\ ~llmTTY /\ nextTurn.fault = "none") => suspendsNow]_vars
  /\ [][noCallAfterReturn]_vars

\* the step is suspended after a turn in which the model called the ask tool
\* and another tool; the output holds the prompt, the assistant message and
\* both tool results
LlmClarificationSuspendsWitness ==
  /\ llmPc = "returned"
  /\ ~llmTTY
  /\ llmResult.status = "suspended"
  /\ llmResult.output.question = "question"
  /\ Len(llmResult.output.messages) = 4
  /\ llmResult.output.messages[3].name = "ask"
  /\ llmResult.output.messages[4].name = "tool"

\* the model called the ask tool without a terminal and the step has failed
LlmAskedAndFailed ==
  /\ llmPc = "returned"
  /\ ~llmTTY
  /\ llmStep.allowClarification
  /\ llmResult.status = "failed"
  /\ llmEntryCalls = 1
  /\ llmScript[1].calls = <<"ask">>

\* the stored messages with the answer as the result of the ask call that
\* suspended the step
RECURSIVE withAnswer(_, _)
withAnswer(messages, answer) ==
  IF messages = <<>> THEN <<>>
  ELSE LET m == Head(messages)
       IN <<IF m.role = "tool" /\ m.name = "ask"
               /\ m.content = "Suspended for user input"
            THEN [m EXCEPT !.content = answer] ELSE m>>
          \o withAnswer(Tail(messages), answer)

\* executeLlmStep was entered again and has called the model once
firstCallAfterResume == llmResumes >= 1 /\ llmEntryCalls = 1

\* C24 - LLM clarification resumes: when executeLlmStep is re-entered for a
\* step whose stored output holds the messages of a suspension, the
\* conversation sent to the model is the stored messages in their stored
\* order, with the user's __answer as the tool result of the pending ask call.
LlmClarificationResumes ==
  firstCallAfterResume =>
    llmSent = mapToCoreMessages(withAnswer(llmStored.messages, llmAnswer))

\* what the re-entry does send: the stored messages that are not system
\* messages, the last maxMessageHistory of them when that is set, with the
\* tool results they were stored with
LlmResumeSendsStored ==
  firstCallAfterResume =>
    llmSent = mapToCoreMessages(
                messagesForTurn(withoutSystem(llmStored.messages), llmStep))

\* the model was called after a re-entry and no message sent to it holds the
\* user's answer
LlmResumeWithoutAnswer ==
  /\ firstCallAfterResume
  /\ llmAnswer = "My name is Keystone"
  /\ \A i \in DOMAIN llmSent :
       llmSent[i].role = "tool" => llmSent[i].content[1].result # llmAnswer

\* C25 - LLM step is bounded: executeLlmStep makes at most maxIterations
\* (default 10) model calls per agent activation and accepts at most 10 agent
\* handoffs, so it makes at most 11 * maxIterations model calls, and when
\* every model call and tool call returns it returns a StepResult.
LlmStepBounded ==
  /\ [](llmPc \in {"running", "returned"} =>
          /\ iterations <= maxIterationsOf(llmStep)
          /\ (llmStep.maxIterations = 0 => iterations <= 10)
          /\ (llmStep.maxIterations # 0 => iterations <= llmStep.maxIterations)
          /\ llmActivations <= 10 + 1
          /\ llmEntryCalls <= (10 + 1) * maxIterationsOf(llmStep)
          /\ (llmPc = "returned") =
               (llmResult.status \in {"success", "failed", "suspended"}))
  /\ [][llmModelCalls' # llmModelCalls =>
          \/ iterations' = iterations + 1 /\ llmActivations' = llmActivations
          \/ iterations' = 0 /\ llmActivations' = llmActivations + 1]_vars
  /\ (llmPc = "running" ~> llmPc = "returned")

\* the step has failed at the eleventh handoff, after as many model calls as
\* the bound allows
LlmStepBoundedWitness ==
  /\ llmPc = "returned"
  /\ llmResult.status = "failed"
  /\ handoffCount = 11
  /\ llmActivations = 11
  /\ llmStep.maxIterations = 2
  /\ llmEntryCalls = 22

\* the step has returned because the default number of iterations was used up
LlmDefaultIterationsWitness ==
  /\ llmPc = "returned"
  /\ llmStep.maxIterations = 0
  /\ iterations = 10
  /\ llmResult.status = "success"
  /\ llmResult.output.text = ""

----------------------------------------------------------------------------
(* Foreach fan-out (spec section 4.8): N iteration executions indexed       *)
(* 0..N-1, dispatched in index order, at most `concurrency` at a time; an   *)
(* iteration that fails does not stop the others.                           *)

MaxForeach == 4

MaxConcurrency == 2

runningIterations(its) == {i \in DOMAIN its : its[i] = "running"}

\* a worker is free to take the next iteration
hasFreeWorkerAlways(its, c) == TRUE

hasFreeWorker(its, c) == Cardinality(runningIterations(its)) < c

\* the next iteration is dispatched: its execution row is created and it
\* starts executing
StartIteration ==
  /\ feNextIndex < Len(feIterations)
  /\ hasFreeWorker(feIterations, feConcurrency)
  /\ feIterations' = [feIterations EXCEPT ![feNextIndex + 1] = "running"]
  /\ feNextIndex' = feNextIndex + 1
  /\ feMaxRunning' = Max(feMaxRunning, Cardinality(runningIterations(feIterations')))
  /\ UNCHANGED feConcurrency
  /\ UNCHANGED exceptForeach

\* an executing iteration ends
FinishIteration(i, status) ==
  /\ i \in DOMAIN feIterations
  /\ feIterations[i] = "running"
  /\ feIterations' = [feIterations EXCEPT ![i] = status]
  /\ UNCHANGED <<feConcurrency, feNextIndex, feMaxRunning>>
  /\ UNCHANGED exceptForeach

InitForeach ==
  /\ CoreIdle /\ McpIdle /\ LlmIdle /\ StoreIdle /\ RedactIdle
  /\ OlIdle /\ MgrIdle
  /\ feConcurrency \in 1..MaxConcurrency
  /\ feIterations \in UNION {[1..n -> {"pending"}] : n \in 0..MaxForeach}
  /\ feNextIndex = 0
  /\ feMaxRunning = 0

NextForeach ==
  \/ StartIteration
  \/ \E i \in 1..MaxForeach, status \in {"success", "failed", "skipped"} :
       FinishIteration(i, status)

SpecForeach == InitForeach /\ [][NextForeach]_vars

----------------------------------------------------------------------------
(* Properties of the foreach fan-out *)

\* C26 - Foreach concurrency bound: for a foreach step with concurrency c, at
\* no instant are more than c of its iterations executing.
ForeachConcurrencyBound ==
  /\ Cardinality(runningIterations(feIterations)) <= feConcurrency
  /\ feMaxRunning <= feConcurrency

\* four items with concurrency 2: two iterations are executing, one is done
\* and one waits for a free worker
ForeachConcurrencyBoundWitness ==
  /\ feConcurrency = 2
  /\ Len(feIterations) = 4
  /\ Cardinality(runningIterations(feIterations)) = 2
  /\ feIterations[4] = "pending"
  /\ \E i \in 1..3 : feIterations[i] = "success"

----------------------------------------------------------------------------
(* More properties of hydration *)

\* the foreach step has been hydrated
ForeachHydrated ==
  /\ pc = "hydrated"
  /\ hasMainStep(db, ForeachStepId)
  /\ ForeachStepId \in DOMAIN stepContexts

\* the number of iteration rows the store holds for the foreach step
IterationRowCount == countStepIterations(db, ForeachStepId) + moreRows

\* the parent row is success or skipped: the step is hydrated from the output
\* stored in the parent row, not from its iteration rows
ParentCompleted == getMainStep(db, ForeachStepId).status \in {"success", "skipped"}

LargeForeachBoundaryWitness ==
  /\ ForeachHydrated
  /\ ~ParentCompleted
  /\ IterationRowCount = 500
  /\ Len(stepContexts[ForeachStepId].output) = MaxItems + 1 + 500
  /\ stepContexts[ForeachStepId].output[MaxItems + 2] = ValueOutput(1)

\* a completed foreach with more than 500 iteration rows was hydrated with
\* the outputs stored in its parent row
LargeForeachCompletedWitness ==
  /\ ForeachHydrated
  /\ getMainStep(db, ForeachStepId).status = "success"
  /\ IterationRowCount > 500
  /\ Len(stepContexts[ForeachStepId].output) > 500

\* the rows of db with iteration_index i
rowsOfIndex(i) == {e \in IterationRows : db[e].iteration_index = i}

\* item i of the hydrated step has the status of row e
itemFrom(i, e) ==
  /\ (i + 1) \in DOMAIN stepContexts[ForeachStepId].items
  /\ stepContexts[ForeachStepId].items[i + 1].status = db[e].status

\* output i of the hydrated step, and the output of item i, are the output of
\* row e
outputFrom(i, e) ==
  /\ (i + 1) \in DOMAIN stepContexts[ForeachStepId].output
  /\ stepContexts[ForeachStepId].output[i + 1] = db[e].output
  /\ stepContexts[ForeachStepId].items[i + 1].output = db[e].output

\* row e is the most recently started row of its index when all the rows of
\* that index have been started
latestStarted(i, e) ==
  (\A f \in rowsOfIndex(i) : db[f].started_at # 0) =>
     \A f \in rowsOfIndex(i) : db[f].started_at <= db[e].started_at

Reverse(seq) == [i \in DOMAIN seq |-> seq[Len(seq) + 1 - i]]

AggregationRetryWitness ==
  /\ ForeachHydrated
  /\ ~ParentCompleted
  /\ \E e, f \in rowsOfIndex(0) :
       /\ db[e].status = "failed" /\ db[f].status = "success"
       /\ 0 < db[e].started_at /\ db[e].started_at < db[f].started_at
  /\ stepContexts[ForeachStepId].items[1].status = "success"

\* the statuses completeStep is specified to write
TerminalStatus == {"success", "failed", "skipped", "suspended"}

\* C29 - Step execution state machine: for every execId the store records
\* status changes only along pending -> running -> {success, failed, skipped,
\* suspended}: a row is created pending, startStep moves it to running, and
\* completeStep is applied only to a running row and writes only a terminal
\* status.
StepExecutionStateMachine ==
  [][/\ \A e \in DOMAIN db' :
          e \notin DOMAIN db => db'[e].status = "pending"
     /\ \A e \in DOMAIN db :
          (e \in DOMAIN db' /\ db'[e] # db[e]) =>
             \/ /\ db[e].status = "pending"
                /\ db'[e].status = "running"
                /\ db'[e].output = db[e].output
             \/ /\ db[e].status = "running"
                /\ db'[e].status \in TerminalStatus]_vars

\* an iteration row was completed without having been started (the item rows
\* of tests/runner/foreach_restore.test.ts)
CompletedWithoutStart ==
  \E e \in DOMAIN db :
    /\ ~isParentRow(db[e])
    /\ db[e].status = "success"
    /\ db[e].started_at = 0

\* completeStep has written the status running (the parent row of
\* tests/runner/foreach_restore.test.ts)
CompletedAsRunning ==
  \E e \in DOMAIN db :
    /\ isParentRow(db[e])
    /\ db[e].status = "running"
    /\ db[e].output = ForeachItemsOutput(MaxItems)

----------------------------------------------------------------------------
(* Redactor.redact applied to its own result *)

\* the secrets maps of the model: those of the streaming model, and two that
\* hold a value made of characters of the replacement text
RedactorConfigs ==
  LET short == [key |-> "MY_SECRET", value |-> <<"a", "b", "a">>]
      stars == [key |-> "PATTERN", value |-> <<"*", "*", "*">>]
      word  == [key |-> "LABEL",
                value |-> <<"R", "E", "D", "A", "C", "T", "E", "D">>]
  IN SecretConfigs \cup {<<short, stars>>, <<short, word>>}

\* the caller extends the text by one character
TypeChar(c) ==
  /\ rdCalls = 0
  /\ Len(rdText) < MaxText
  /\ rdText' = Append(rdText, c)
  /\ UNCHANGED <<rdSecrets, rdOnce, rdTwice, rdCalls>>
  /\ UNCHANGED exceptRedact

\* redactor.redact(x)
RedactText ==
  /\ rdCalls = 0
  /\ rdOnce' = redact(Redactor(rdSecrets), rdText)
  /\ rdCalls' = 1
  /\ UNCHANGED <<rdSecrets, rdText, rdTwice>>
  /\ UNCHANGED exceptRedact

\* redactor.redact(redactor.redact(x))
RedactAgain ==
  /\ rdCalls = 1
  /\ rdTwice' = redact(Redactor(rdSecrets), rdOnce)
  /\ rdCalls' = 2
  /\ UNCHANGED <<rdSecrets, rdText, rdOnce>>
  /\ UNCHANGED exceptRedact

InitRedact ==
  /\ CoreIdle /\ McpIdle /\ LlmIdle /\ ForeachIdle /\ StoreIdle
  /\ OlIdle /\ MgrIdle
  /\ rdSecrets \in RedactorConfigs
  /\ rdText = <<>>
  /\ rdOnce = <<>>
  /\ rdTwice = <<>>
  /\ rdCalls = 0

NextRedact ==
  \/ \E c \in Chars : TypeChar(c)
  \/ RedactText
  \/ RedactAgain

SpecRedact == InitRedact /\ [][NextRedact]_vars

\* the characters of the replacement text
MaskChars == {MASK[i] : i \in DOMAIN MASK}

\* no value of the secrets map holds a character of the replacement text
SecretsAvoidMask ==
  \A i \in DOMAIN rdSecrets :
    \A j \in DOMAIN rdSecrets[i].value : rdSecrets[i].value[j] \notin MaskChars

RedactionOfTheMask ==
  /\ rdCalls = 2
  /\ ~SecretsAvoidMask
  /\ rdText = <<"a", "b", "a">>
  /\ Contains(rdOnce, MASK)
  /\ Len(rdTwice) > Len(rdOnce)

----------------------------------------------------------------------------
(* createOutputLimiter (utils/stream-utils.ts). A buffer is a sequence of  *)
(* bytes: "a" is an ASCII byte, "L" the lead byte and "C" the continuation *)
(* byte of a two-byte character.                                            *)

MaxOutput == 3
MaxInput == 4
MaxChunk == 2

Bytes == {"a", "L", "C"}

\* U+FFFD, which the decoder emits for a byte sequence that is not UTF-8
REPLACEMENT == "FFFD"

TRUNCATED_SUFFIX == <<"\n... [truncated]">>

\* StringDecoder.write(buffer): the characters completed by the buffer and
\* the bytes of an incomplete character, held back for the next write
RECURSIVE decoderWrite(_, _)
decoderWrite(pending, buffer) ==
  IF buffer = <<>> THEN [text |-> <<>>, pending |-> pending]
  ELSE LET b == Head(buffer)
       IN IF pending # <<>>
          THEN IF b = "C"
               THEN LET r == decoderWrite(<<>>, Tail(buffer))
                    IN [text |-> <<"e'">> \o r.text, pending |-> r.pending]
               ELSE LET r == decoderWrite(<<>>, buffer)
                    IN [text |-> <<REPLACEMENT>> \o r.text, pending |-> r.pending]
          ELSE IF b = "L"
               THEN decoderWrite(<<"L">>, Tail(buffer))
               ELSE LET r == decoderWrite(<<>>, Tail(buffer))
                    IN [text |-> <<IF b = "a" THEN "a" ELSE REPLACEMENT>> \o r.text,
                        pending |-> r.pending]

\* StringDecoder.end(): an incomplete character becomes U+FFFD
decoderEnd(pending) == IF pending = <<>> THEN <<>> ELSE <<REPLACEMENT>>

\* buffer.subarray(0, remaining) without the bound
subarrayWhole(buffer, end) == buffer

\* buffer.subarray(0, remaining)
subarray(buffer, end) == SubSeq(buffer, 1, end)

\* append(chunk)
OlAppend(chunk) ==
  /\ olFinal = <<>>
  /\ Len(olInput) + Len(chunk) <= MaxInput
  /\ olInput' = olInput \o chunk
  /\ IF olTruncated \/ olMaxBytes <= 0
     THEN /\ olTruncated' = TRUE
          /\ UNCHANGED <<olBytes, olText, olPending, olWritten>>
     ELSE LET room == olMaxBytes - olBytes
          IN IF room <= 0
             THEN /\ olTruncated' = TRUE
                  /\ UNCHANGED <<olBytes, olText, olPending, olWritten>>
             ELSE IF Len(chunk) <= room
                  THEN LET r == decoderWrite(olPending, chunk)
                       IN /\ olText' = olText \o r.text
                          /\ olPending' = r.pending
                          /\ olWritten' = olWritten \o chunk
                          /\ olBytes' = olBytes + Len(chunk)
                          /\ UNCHANGED olTruncated
                  ELSE LET sub == subarray(chunk, room)
                           r == decoderWrite(olPending, sub)
                       IN /\ olText' = olText \o r.text
                          /\ olPending' = r.pending
                          /\ olWritten' = olWritten \o sub
                          /\ olBytes' = olMaxBytes
                          /\ olTruncated' = TRUE
  /\ UNCHANGED <<olMaxBytes, olFinal>>
  /\ UNCHANGED exceptOl

\* finalize()
OlFinalize ==
  /\ olFinal = <<>>
  /\ olText' = olText \o decoderEnd(olPending)
  /\ olPending' = <<>>
  /\ olFinal' = <<IF olTruncated THEN olText' \o TRUNCATED_SUFFIX ELSE olText'>>
  /\ UNCHANGED <<olMaxBytes, olBytes, olTruncated, olWritten, olInput>>
  /\ UNCHANGED exceptOl

InitOl ==
  /\ CoreIdle /\ McpIdle /\ LlmIdle /\ ForeachIdle /\ StoreIdle /\ RedactIdle
  /\ MgrIdle
  /\ olMaxBytes \in -1..MaxOutput
  /\ olBytes = 0
  /\ olText = <<>>
  /\ olTruncated = FALSE
  /\ olPending = <<>>
  /\ olWritten = <<>>
  /\ olInput = <<>>
  /\ olFinal = <<>>

NextOl ==
  \/ \E n \in 0..MaxChunk : \E chunk \in [1..n -> Bytes] : OlAppend(chunk)
  \/ OlFinalize

SpecOl == InitOl /\ [][NextOl]_vars

----------------------------------------------------------------------------
(* Properties of the output limiter *)

\* the UTF-8 encoding of a text without replacement characters
RECURSIVE encodeUtf8(_)
encodeUtf8(text) ==
  IF text = <<>> THEN <<>>
  ELSE (IF Head(text) = "a" THEN <<"a">> ELSE <<"L", "C">>)
       \o encodeUtf8(Tail(text))

----------------------------------------------------------------------------
(* MCPManager (runner/mcp-manager.ts). A string is a sequence of           *)
(* characters; a client is named by the connection attempt that made it.    *)

MaxMgrCallers == 3
MaxStops == 1

\* the text `${undefined}` of a missing field
UNDEFINED == <<"u", "n", "d", "e", "f", "i", "n", "e", "d">>

\* args.join(' ')
RECURSIVE join(_)
join(args) ==
  IF args = <<>> THEN <<>>
  ELSE IF Len(args) = 1 THEN args[1]
       ELSE args[1] \o <<" ">> \o join(Tail(args))

\* getServerKey(config)
getServerKey(config) ==
  IF config.type = "remote"
  THEN <<"r", "e", "m", "o", "t", "e", ":">> \o config.name \o <<":">> \o config.url
  ELSE <<"l", "o", "c", "a", "l", ":">> \o config.name \o <<":">>
       \o config.command \o <<":">> \o join(config.args)

\* the ad-hoc server configurations of the model, all with the same name
ServerConfigs ==
  LET name == <<"s">>
      local(command, args) ==
        [name |-> name, type |-> "local", command |-> command, args |-> args,
         url |-> UNDEFINED]
      remote(url) ==
        [name |-> name, type |-> "remote", command |-> UNDEFINED, args |-> <<>>,
         url |-> url]
  IN {local(<<"e">>, a) : a \in {<< <<"a">> >>, << <<"a", " ", "b">> >>,
                                  << <<"a">>, <<"b">> >>}}
     \cup {local(UNDEFINED, <<>>), remote(<<"x">>), remote(<<"y">>)}

\* !config.url / !config.command
isConnectable(config) ==
  IF config.type = "remote" THEN config.url # UNDEFINED
  ELSE config.command # UNDEFINED

\* a manager that never finds a connection in progress
isConnectingNever(key) == FALSE

\* this.connectionPromises.has(key)
isConnecting(key) == key \in DOMAIN mgrPromises

mapSet(map, key, value) ==
  [k \in DOMAIN map \cup {key} |-> IF k = key THEN value ELSE map[k]]

mapDelete(map, key) == [k \in DOMAIN map \ {key} |-> map[k]]

NoCall == [state |-> "idle", config |-> <<>>, key |-> <<>>, attempt |-> 0,
           via |-> "", result |-> 0]

\* getClient(config), up to the promise it returns. Callers are numbered in
\* the order of their calls.
GetClient(c, config) ==
  /\ mgrCalls[c].state = "idle"
  /\ \A d \in 1..(c - 1) : mgrCalls[d].state # "idle"
  /\ LET key == getServerKey(config)
         a == Len(mgrAttempts) + 1
     IN IF key \in DOMAIN mgrClients
        THEN /\ mgrCalls' = [mgrCalls EXCEPT ![c] =
                  [state |-> "returned", config |-> config, key |-> key,
                   attempt |-> 0, via |-> "clients",
                   result |-> mgrClients[key]]]
             /\ UNCHANGED <<mgrPromises, mgrAttempts>>
        ELSE IF isConnecting(key)
        THEN /\ mgrCalls' = [mgrCalls EXCEPT ![c] =
                  [state |-> "waiting", config |-> config, key |-> key,
                   attempt |-> mgrPromises[key], via |-> "connectionPromises",
                   result |-> 0]]
             /\ UNCHANGED <<mgrPromises, mgrAttempts>>
        ELSE /\ mgrAttempts' = Append(mgrAttempts,
                  [key |-> key, config |-> config,
                   phase |-> IF isConnectable(config)
                             THEN "connecting" ELSE "failed"])
             /\ mgrPromises' = mapSet(mgrPromises, key, a)
             /\ mgrCalls' = [mgrCalls EXCEPT ![c] =
                  [state |-> "waiting", config |-> config, key |-> key,
                   attempt |-> a, via |-> "connect", result |-> 0]]
  /\ UNCHANGED <<mgrClients, mgrCreated, mgrStops>>
  /\ UNCHANGED exceptMgr

\* MCPClient.createLocal / createRemote settles
CreateSettles(a, ok) ==
  /\ a \in DOMAIN mgrAttempts
  /\ mgrAttempts[a].phase = "connecting"
  /\ IF ok
     THEN /\ mgrAttempts' = [mgrAttempts EXCEPT ![a].phase = "initializing"]
          /\ mgrCreated' = mgrCreated + 1
          /\ UNCHANGED mgrPromises
     ELSE /\ mgrAttempts' = [mgrAttempts EXCEPT ![a].phase = "failed"]
          /\ mgrPromises' = mapDelete(mgrPromises, mgrAttempts[a].key)
          /\ UNCHANGED mgrCreated
  /\ UNCHANGED <<mgrClients, mgrCalls, mgrStops>>
  /\ UNCHANGED exceptMgr

\* client.initialize() settles
InitializeSettles(a, ok) ==
  /\ a \in DOMAIN mgrAttempts
  /\ mgrAttempts[a].phase = "initializing"
  /\ IF ok
     THEN /\ mgrAttempts' = [mgrAttempts EXCEPT ![a].phase = "done"]
          /\ mgrClients' = mapSet(mgrClients, mgrAttempts[a].key, a)
     ELSE /\ mgrAttempts' = [mgrAttempts EXCEPT ![a].phase = "failed"]
          /\ UNCHANGED mgrClients
  /\ mgrPromises' = mapDelete(mgrPromises, mgrAttempts[a].key)
  /\ UNCHANGED <<mgrCalls, mgrCreated, mgrStops>>
  /\ UNCHANGED exceptMgr

\* the promise a caller awaits has settled
GetClientReturns(c) ==
  /\ mgrCalls[c].state = "waiting"
  /\ mgrAttempts[mgrCalls[c].attempt].phase \in {"done", "failed"}
  /\ mgrCalls' = [mgrCalls EXCEPT
       ![c].state = "returned",
       ![c].result = IF mgrAttempts[mgrCalls[c].attempt].phase = "done"
                     THEN mgrCalls[c].attempt ELSE 0]
  /\ UNCHANGED <<mgrClients, mgrPromises, mgrAttempts, mgrCreated, mgrStops>>
  /\ UNCHANGED exceptMgr

\* stopAll()
StopAll ==
  /\ mgrStops < MaxStops
  /\ mgrClients' = <<>>
  /\ mgrStops' = mgrStops + 1
  /\ UNCHANGED <<mgrPromises, mgrAttempts, mgrCalls, mgrCreated>>
  /\ UNCHANGED exceptMgr

InitMgr ==
  /\ CoreIdle /\ McpIdle /\ LlmIdle /\ ForeachIdle /\ StoreIdle /\ RedactIdle
  /\ OlIdle
  /\ mgrClients = <<>>
  /\ mgrPromises = <<>>
  /\ mgrAttempts = <<>>
  /\ mgrCalls = [c \in 1..MaxMgrCallers |-> NoCall]
  /\ mgrCreated = 0
  /\ mgrStops = 0

NextMgr ==
  \/ \E c \in 1..MaxMgrCallers : \E config \in ServerConfigs : GetClient(c, config)
  \/ \E a \in 1..MaxMgrCallers : \E ok \in BOOLEAN : CreateSettles(a, ok)
  \/ \E a \in 1..MaxMgrCallers : \E ok \in BOOLEAN : InitializeSettles(a, ok)
  \/ \E c \in 1..MaxMgrCallers : GetClientReturns(c)
  \/ StopAll

SpecMgr == InitMgr /\ [][NextMgr]_vars

----------------------------------------------------------------------------
(* Properties of the MCP manager *)

\* two configurations with the same name and type that differ in the command
\* or the argument list (local) or in the url (remote)
differentServers(c1, c2) ==
  /\ c1.name = c2.name
  /\ c1.type = c2.type
  /\ IF c1.type = "remote" THEN c1.url # c2.url
     ELSE c1.command # c2.command \/ c1.args # c2.args

\* C32 - MCP server keys are unique per configuration: two server configs
\* with the same name but a different command or argument list (local) or a
\* different url (remote) always get different cache keys from getServerKey,
\* so getClient never hands the client of one configuration to a caller that
\* asked for the other.
McpServerKeysUnique ==
  \A c1, c2 \in DOMAIN mgrCalls :
    (/\ mgrCalls[c1].state # "idle"
     /\ mgrCalls[c2].state # "idle"
     /\ differentServers(mgrCalls[c1].config, mgrCalls[c2].config)) =>
       /\ mgrCalls[c1].key # mgrCalls[c2].key
       /\ (mgrCalls[c1].result # 0 /\ mgrCalls[c2].result # 0) =>
            mgrCalls[c1].result # mgrCalls[c2].result

\* a caller that asked for `e "a b"` holds the client connected for `e a b`
McpClientOfOtherConfig ==
  \E c1, c2 \in DOMAIN mgrCalls :
    /\ mgrCalls[c1].state = "returned" /\ mgrCalls[c2].state = "returned"
    /\ mgrCalls[c1].config.args = << <<"a">>, <<"b">> >>
    /\ mgrCalls[c2].config.args = << <<"a", " ", "b">> >>
    /\ mgrCalls[c1].via = "connect"
    /\ mgrCalls[c2].via = "clients"
    /\ mgrCalls[c1].result # 0
    /\ mgrCalls[c2].result = mgrCalls[c1].result

\* the keys of configurations whose arguments hold no blank and that differ
\* in the url or in the argument list are different
McpServerKeysUniqueWithoutBlanks ==
  \A c1, c2 \in DOMAIN mgrCalls :
    (/\ mgrCalls[c1].state # "idle"
     /\ mgrCalls[c2].state # "idle"
     /\ differentServers(mgrCalls[c1].config, mgrCalls[c2].config)
     /\ \A c \in {c1, c2} : \A i \in DOMAIN mgrCalls[c].config.args :
          \A j \in DOMAIN mgrCalls[c].config.args[i] :
            mgrCalls[c].config.args[i][j] # " ") =>
       mgrCalls[c1].key # mgrCalls[c2].key

noAttemptFailed == \A a \in DOMAIN mgrAttempts : mgrAttempts[a].phase # "failed"

attemptsOf(key) == {a \in DOMAIN mgrAttempts : mgrAttempts[a].key = key}

\* C37 - One MCP connection per server key: for any interleaving of
\* concurrent getClient calls with the same server key in which no
\* connection attempt fails (and stopAll is not called), exactly one MCPClient
\* is created and initialized, and every caller receives that same client:
\* callers that arrive during the attempt share its pending result, later
\* callers get the cached client.
McpOneConnectionPerKey ==
  (noAttemptFailed /\ mgrStops = 0) =>
     /\ \A c \in DOMAIN mgrCalls :
          mgrCalls[c].state # "idle" =>
            /\ Cardinality(attemptsOf(mgrCalls[c].key)) = 1
            /\ mgrCalls[c].state = "returned" =>
                 /\ mgrCalls[c].result \in attemptsOf(mgrCalls[c].key)
                 /\ mgrAttempts[mgrCalls[c].result].phase = "done"
                 /\ mgrClients[mgrCalls[c].key] = mgrCalls[c].result
            /\ mgrCalls[c].via = "clients" => mgrCalls[c].state = "returned"
            /\ mgrCalls[c].via = "connectionPromises" =>
                 mgrCalls[c].attempt \in attemptsOf(mgrCalls[c].key)
     /\ mgrCreated = Cardinality({a \in DOMAIN mgrAttempts :
                         mgrAttempts[a].phase \in {"initializing", "done"}})

\* three callers asked for the same server: one started the connection, one
\* arrived during the attempt, one after it; all hold the one client
McpOneConnectionPerKeyWitness ==
  /\ noAttemptFailed
  /\ mgrStops = 0
  /\ mgrCreated = 1
  /\ \A c \in DOMAIN mgrCalls :
       mgrCalls[c].state = "returned" /\ mgrCalls[c].result = 1
  /\ \E c1, c2, c3 \in DOMAIN mgrCalls :
       /\ mgrCalls[c1].via = "connect"
       /\ mgrCalls[c2].via = "connectionPromises"
       /\ mgrCalls[c3].via = "clients"

----------------------------------------------------------------------------
(* More properties of streaming redaction *)

\* the chunk of the process() call that a step makes
processedChunk == SubSeq(rbInput', Len(rbInput) + 1, Len(rbInput'))

\* C33 - Redaction buffer tail: after every RedactionBuffer.process() call,
\* the text held back in the buffer has length min(L, maxSecretLength), where
\* L is the length of the redacted buffer content, and it is the end of that
\* content, the emitted text being its start; so whenever process() emits any
\* text, exactly maxSecretLength characters remain buffered.
RedactionBufferTail ==
  [][rbCalls' = rbCalls + 1 =>
       LET redactedBuffer == redact(Redactor(secrets), rbBuffer \o processedChunk)
           emitted == SubSeq(rbOutput', Len(rbOutput) + 1, Len(rbOutput'))
       IN /\ Len(rbBuffer') =
               Min(Len(redactedBuffer), Redactor(secrets).maxSecretLength)
          /\ emitted \o rbBuffer' = redactedBuffer
          /\ emitted # <<>> =>
               Len(rbBuffer') = Redactor(secrets).maxSecretLength]_vars

\* process() has emitted text and holds back exactly maxSecretLength
\* characters, and before that a call held back a shorter buffer whole
RedactionBufferTailWitness ==
  /\ ~rbFlushed
  /\ rbCalls >= 2
  /\ rbOutput # <<>>
  /\ Len(rbOutput) < Redactor(secrets).maxSecretLength
  /\ Len(rbBuffer) = Redactor(secrets).maxSecretLength
  /\ Redactor(secrets).maxSecretLength = 5

canOverlap(v, w) ==
  \/ Contains(v, w)
  \/ Contains(w, v)
  \/ \E k \in 1..(Min(Len(v), Len(w)) - 1) :
       \/ SubSeq(v, Len(v) - k + 1, Len(v)) = SubSeq(w, 1, k)
       \/ SubSeq(w, Len(w) - k + 1, Len(w)) = SubSeq(v, 1, k)

\* every secret value has at least 5 characters (no pattern has a word
\* boundary), none holds a character of the replacement text, and no two
\* different values can overlap in a text
OnlyLongSecrets ==
  /\ \A i \in DOMAIN secrets :
       /\ Len(secrets[i].value) >= 5
       /\ \A j \in DOMAIN secrets[i].value :
            secrets[i].value[j] \notin {MASK[k] : k \in DOMAIN MASK}
  /\ \A i, j \in DOMAIN secrets :
       secrets[i].value # secrets[j].value =>
         ~canOverlap(secrets[i].value, secrets[j].value)

StreamingMasksMore ==
  /\ rbFlushed
  /\ Contains(rbOutput, MASK)
  /\ redact(Redactor(secrets), rbInput) = rbInput

\* two long secrets overlap in the text: streaming masks the one that is
\* complete first, one-shot redaction the one whose pattern comes first
StreamingMasksAnother ==
  /\ rbFlushed
  /\ \A i \in DOMAIN secrets : Len(secrets[i].value) >= 5
  /\ Contains(rbOutput, MASK)
  /\ Contains(redact(Redactor(secrets), rbInput), MASK)
  /\ rbOutput # redact(Redactor(secrets), rbInput)

----------------------------------------------------------------------------
(* More properties of the scheduler *)

\* the pending steps whose needs are all completed, in the order of
\* pendingSteps
readyPending ==
  SelectSeq(pendingSteps,
            LAMBDA id : \A dep \in needsOf(id) : dep \in completedSteps)

positionIn(seq, x) == CHOOSE i \in DOMAIN seq : seq[i] = x

\* C34 - getRunnableSteps is work-conserving and ordered: it returns, in the
\* stable topological order, the first k ready pending steps, where a step is
\* ready when all its needs are completed and
\* k = min(number of ready pending steps, max(0, globalConcurrencyLimit -
\* runningCount)); a ready pending step is never left out while capacity
\* remains.
RunnableWorkConserving ==
  [][(/\ pc = "scheduling" /\ pc' = "scheduling"
      /\ pendingSteps' = pendingSteps
      /\ runningSteps' = runningSteps
      /\ completedSteps' = completedSteps) =>
       LET k == Min(Len(readyPending), Max(0, globalCap - runningCount'))
       IN /\ runnable' = SubSeq(readyPending, 1, k)
          /\ \A i, j \in DOMAIN runnable' :
               i < j => positionIn(executionOrder, runnable'[i])
                          < positionIn(executionOrder, runnable'[j])
          /\ (Len(runnable') + runningCount' < globalCap) =>
               \A i \in DOMAIN readyPending :
                 readyPending[i] \in Range(runnable')]_vars

\* getRunnableSteps passed over a pending step that is not ready and returned
\* a later one, which filled the capacity left by a running step
RunnableWorkConservingWitness ==
  /\ pc = "scheduling"
  /\ Len(runnable) >= 1
  /\ \A i \in DOMAIN runnable : runnable[i] \in Range(pendingSteps)
  /\ runnable = SubSeq(readyPending, 1, Len(runnable))
  /\ runningCount >= 1
  /\ Len(runnable) + runningCount = globalCap
  /\ \E i, j \in DOMAIN pendingSteps :
       /\ i < j
       /\ pendingSteps[i] \notin Range(readyPending)
       /\ pendingSteps[j] \in Range(runnable)

\* pending steps, nothing running and nothing runnable
DeadEnd ==
  /\ pc = "scheduling"
  /\ Len(pendingSteps) > 0
  /\ runningSteps = {}
  /\ getRunnableSteps(workflow, pendingSteps, completedSteps, 0, globalCap) = <<>>

\* C35 - Scheduler progress: for an acyclic workflow and a concurrency limit
\* of at least 1, if every started step is eventually marked complete, the
\* loop that repeats getRunnableSteps, startStep and markStepComplete
\* eventually reaches isComplete() = true with every step in completed; it
\* never reaches a state with pending steps, nothing running and nothing
\* runnable.
SchedulerProgress ==
  /\ []~DeadEnd
  /\ <>(/\ pc = "scheduling"
        /\ isComplete
        /\ \A i \in DOMAIN workflow : workflow[i].id \in completedSteps)

\* the run drained: every step that was not restored was started and marked
\* complete, one of them after a step it needs
SchedulerProgressWitness ==
  /\ pc = "scheduling"
  /\ isComplete
  /\ \A i \in DOMAIN workflow : workflow[i].id \in completedSteps
  /\ Cardinality(completeEvents) >= 2
  /\ completeEvents = startEvents
  /\ \E b \in completeEvents : \E a \in needsOf(b) : a \in completeEvents

----------------------------------------------------------------------------
(* More properties of executeLlmStep *)

\* every tool call of every assistant message of msgs is followed, in the
\* order of the calls, by its tool message, and no other tool message of the
\* list carries its id
answered(msgs) ==
  \A p \in DOMAIN msgs :
    msgs[p].role = "assistant" =>
      LET calls == msgs[p].tool_calls
      IN /\ p + Len(calls) <= Len(msgs)
         /\ \A i \in DOMAIN calls :
              /\ msgs[p + i].role = "tool"
              /\ msgs[p + i].tool_call_id = calls[i].id
              /\ Cardinality({q \in DOMAIN msgs :
                                /\ msgs[q].role = "tool"
                                /\ msgs[q].tool_call_id = calls[i].id}) = 1

\* executeLlmStep has thrown: its message list is gone with it
llmThrew == llmPc = "returned" /\ llmResult.status = "failed"

HandoffsInsideAllowList ==
  [][llmPc = "running" =>
       /\ (activeAgent' # activeAgent \/ handoffCount' > handoffCount) =>
            /\ activeAgent' \in llmStep.allowedHandoffs
            /\ \E i \in DOMAIN nextTurn.calls :
                 /\ nextTurn.calls[i] \in TransferCalls
                 /\ agent_name(nextTurn.calls[i]) = activeAgent'
       /\ (\A i \in DOMAIN nextTurn.calls :
             nextTurn.calls[i] \in TransferCalls =>
               agent_name(nextTurn.calls[i]) \notin llmStep.allowedHandoffs) =>
            activeAgent' = activeAgent /\ handoffCount' = handoffCount]_vars

\* agent b is active after a turn that asked for agent c, which was refused,
\* and then for agent b
HandoffsInsideAllowListWitness ==
  /\ llmPc = "running"
  /\ activeAgent = "b"
  /\ handoffCount = 1
  /\ \E p \in DOMAIN currentMessages :
       /\ currentMessages[p].role = "tool"
       /\ currentMessages[p].name = "transfer_c"
       /\ currentMessages[p].content = "error: not allowed"
       /\ p < Len(currentMessages)
       /\ currentMessages[p + 1].content = "Transferred"

----------------------------------------------------------------------------
(* Properties of hydration after retries *)

\* the indexes that have several rows
retriedIndexes == {i \in 0..MaxItems : Cardinality(rowsOfIndex(i)) >= 2}

\* row e of index i has been started, and no row of the index after it
isLatestAttempt(i, e) ==
  /\ e \in rowsOfIndex(i)
  /\ db[e].started_at # 0
  /\ \A f \in rowsOfIndex(i) : db[f].started_at <= db[e].started_at

\* item i of the hydrated step has the error of row e
errorFrom(i, e) ==
  /\ (i + 1) \in DOMAIN stepContexts[ForeachStepId].items
  /\ stepContexts[ForeachStepId].items[i + 1].error = db[e].error

\* item i of the hydrated step has the output of row e
itemOutputFrom(i, e) ==
  /\ (i + 1) \in DOMAIN stepContexts[ForeachStepId].items
  /\ stepContexts[ForeachStepId].items[i + 1].output = db[e].output

LatestAttemptHidden ==
  /\ ForeachHydrated
  /\ ~ParentCompleted
  /\ \E e, f \in rowsOfIndex(0) :
       /\ e < f
       /\ db[e].started_at = 0
       /\ db[e].status = "pending"
       /\ db[f].status = "success"
       /\ stepContexts[ForeachStepId].items[1].status = "pending"

\* the latest attempt of an iteration of a large dataset: its output is not
\* hydrated
LatestAttemptLarge ==
  /\ ForeachHydrated
  /\ ~ParentCompleted
  /\ IterationRowCount > 500
  /\ \E e, f \in rowsOfIndex(0) :
       /\ db[e].started_at # 0
       /\ db[e].started_at < db[f].started_at
       /\ db[f].output # NoOutput
       /\ stepContexts[ForeachStepId].items[1].output = NoOutput

====
